---- MODULE Spec2Model ----
(***************************************************************************)
(* Document storage core of SYNDI / CLAIRE (backend/rawscribe/utils):      *)
(* BaseJSONStorage with its two backends LocalJSONStorage and              *)
(* S3JSONStorage, the StorageManager validation front end and the draft    *)
(* update route.                                                           *)
(*                                                                         *)
(* Strings are sequences of symbols.  A symbol is a chunk of text that the *)
(* code never splits ("submissions", "/", ".json", "__HYPHEN__", one       *)
(* 8-hex short id, one YYYYMMDD_HHMMSS timestamp, one letter); prefix,     *)
(* substring and split operations of the code are the same operations on   *)
(* the symbol sequence.                                                    *)
(***************************************************************************)
EXTENDS Integers, Sequences, FiniteSets, TLC

(***************************************************************************)
(* Bounds of the model.                                                    *)
(***************************************************************************)
\* the objects a store holds before a save or an upload is refused
MaxObjects == 3
\* the last tick of the clock
MaxTime == 1

(***************************************************************************)
(* String helpers (Python str semantics on symbol sequences).              *)
(***************************************************************************)

StartsWith(s, p) ==
    /\ Len(p) <= Len(s)
    /\ SubSeq(s, 1, Len(p)) = p

EndsWith(s, p) ==
    /\ Len(p) <= Len(s)
    /\ SubSeq(s, Len(s) - Len(p) + 1, Len(s)) = p

\* Python "p in s" on strings.
Contains(s, p) ==
    \E i \in 0..(Len(s) - Len(p)) : SubSeq(s, i + 1, i + Len(p)) = p

\* Position of the first occurrence of symbol c in s, 0 when absent.
IndexOf(s, c) ==
    IF \E i \in 1..Len(s) : s[i] = c
    THEN CHOOSE i \in 1..Len(s) : s[i] = c /\ \A j \in 1..(i - 1) : s[j] # c
    ELSE 0

\* Position of the last occurrence of symbol c in s, 0 when absent.
LastIndexOf(s, c) ==
    IF \E i \in 1..Len(s) : s[i] = c
    THEN CHOOSE i \in 1..Len(s) : s[i] = c /\ \A j \in (i + 1)..Len(s) : s[j] # c
    ELSE 0

\* key.split('/')[-1]
LastSegment(key) == SubSeq(key, LastIndexOf(key, "/") + 1, Len(key))

\* s.replace(a, b) for a single symbol a and a string b.
RECURSIVE Replace(_, _, _)
Replace(s, a, b) ==
    IF s = <<>> THEN <<>>
    ELSE (IF Head(s) = a THEN b ELSE <<Head(s)>>) \o Replace(Tail(s), a, b)

\* s.split('-', maxsplit): at most maxsplit splits, left to right.
RECURSIVE SplitMax(_, _, _)
SplitMax(s, sep, maxsplit) ==
    LET i == IndexOf(s, sep) IN
    IF maxsplit = 0 \/ i = 0 THEN <<s>>
    ELSE <<SubSeq(s, 1, i - 1)>> \o SplitMax(SubSeq(s, i + 1, Len(s)), sep, maxsplit - 1)

\* "-".join(parts)
RECURSIVE Join(_, _)
Join(parts, sep) ==
    IF parts = <<>> THEN <<>>
    ELSE IF Len(parts) = 1 THEN parts[1]
    ELSE parts[1] \o <<sep>> \o Join(Tail(parts), sep)

(***************************************************************************)
(* file_validation.py: field id escaping and temp filename parsing.        *)
(***************************************************************************)
escape_field_id(field_id) == Replace(field_id, "-", <<"__HYPHEN__">>)

unescape_field_id(escaped_field_id) == Replace(escaped_field_id, "__HYPHEN__", <<"-">>)

parse_temp_filename_and_unescape(temp_filename) ==
    LET parts == SplitMax(temp_filename, "-", 3) IN
    IF Len(parts) >= 4
    THEN parts[1] \o <<"-">> \o unescape_field_id(parts[2]) \o <<"-">>
            \o parts[3] \o <<"-">> \o parts[4]
    ELSE temp_filename

process_temp_filename(temp_filename) == parse_temp_filename_and_unescape(temp_filename)

(***************************************************************************)
(* schema_utils.py: normalize_filename_value.                              *)
(***************************************************************************)
MaxNameLen == 50

\* The characters of a multi-character symbol that normalisation looks into.
Expand(c) ==
    IF c = "__HYPHEN__" THEN <<"_", "_", "HYPHEN", "_", "_">> ELSE <<c>>

RECURSIVE ExpandAll(_)
ExpandAll(s) == IF s = <<>> THEN <<>> ELSE Expand(Head(s)) \o ExpandAll(Tail(s))

\* str.lower()
Lower(c) ==
    CASE c = "P" -> "p"
      [] c = "S1" -> "s1"
      [] c = "S2" -> "s2"
      [] c = "HYPHEN" -> "hyphen"
      [] OTHER -> c

RECURSIVE LowerAll(_)
LowerAll(s) == IF s = <<>> THEN <<>> ELSE <<Lower(Head(s))>> \o LowerAll(Tail(s))

\* Symbols matched by the regular expression class [^\w._]
NonWord == {"-", " ", "/"}

\* Whitespace removed by str.strip()
Whitespace == {" "}

RECURSIVE StripLeft(_, _)
StripLeft(s, cs) ==
    IF s # <<>> /\ Head(s) \in cs THEN StripLeft(Tail(s), cs) ELSE s

RECURSIVE StripRight(_, _)
StripRight(s, cs) ==
    IF s # <<>> /\ s[Len(s)] \in cs THEN StripRight(SubSeq(s, 1, Len(s) - 1), cs) ELSE s

Strip(s, cs) == StripRight(StripLeft(s, cs), cs)

\* re.sub(r'_+', '_', s)
RECURSIVE CollapseUnderscores(_)
CollapseUnderscores(s) ==
    IF Len(s) < 2 THEN s
    ELSE IF s[1] = "_" /\ s[2] = "_" THEN CollapseUnderscores(Tail(s))
    ELSE <<Head(s)>> \o CollapseUnderscores(Tail(s))

\* The value used as it is, its hyphens kept.
raw_filename_value(value) == value

normalize_filename_value(value) ==
    IF value = <<>> THEN <<>>
    ELSE LET stripped == Strip(ExpandAll(value), Whitespace)
             replaced == [i \in 1..Len(stripped) |->
                            IF stripped[i] \in NonWord THEN "_" ELSE stripped[i]]
             collapsed == CollapseUnderscores(replaced)
             trimmed == Strip(collapsed, {"_"})
             limited == SubSeq(trimmed, 1, IF Len(trimmed) < MaxNameLen
                                           THEN Len(trimmed) ELSE MaxNameLen)
         IN LowerAll(limited)

(***************************************************************************)
(* filename_generator.py and eln_filename_utils.py.                        *)
(***************************************************************************)
\* The 8-hex short ids uuid4 can return.
ShortIds == {"a", "b"}

\* strftime("%Y%m%d_%H%M%S") of the clock value t.
TsSym(t) == <<"T0", "T1", "T2", "T3", "T4", "T5">>[t + 1]

\* The positional components of generate_filename.
RECURSIVE FilenameVars(_, _, _)
FilenameVars(filename_variables, field_ids, i) ==
    IF i > Len(filename_variables) THEN <<>>
    ELSE LET var == filename_variables[i]
             comp == IF var # <<>> /\ Strip(var, Whitespace) # <<>>
                     THEN normalize_filename_value(var)
                     ELSE IF i <= Len(field_ids)
                     THEN normalize_filename_value(field_ids[i])
                     ELSE <<"empty">>
         IN <<comp>> \o FilenameVars(filename_variables, field_ids, i + 1)

\* generate_filename with the timestamp and the drawn short id made explicit.
generate_filename(status, username, filename_variables, field_ids, t, short_uuid) ==
    Join(<< <<status>>, normalize_filename_value(username) >>
            \o FilenameVars(filename_variables, field_ids, 1)
            \o << <<TsSym(t)>>, <<short_uuid>> >>, "-") \o <<".json">>

\* parts = base_name.split('-')
SplitAll(s, sep) == SplitMax(s, sep, Len(s))

\* parse_eln_filename; valid = FALSE stands for FilenameGenerationError.
parse_eln_filename(filename) ==
    IF ~EndsWith(filename, <<".json">>)
    THEN [valid |-> FALSE]
    ELSE LET parts == SplitAll(SubSeq(filename, 1, Len(filename) - 1), "-") IN
         IF Len(parts) < 4
         THEN [valid |-> FALSE]
         ELSE [valid |-> TRUE,
               status |-> parts[1],
               username |-> parts[2],
               variables |-> IF Len(parts) > 4 THEN SubSeq(parts, 3, Len(parts) - 2) ELSE <<>>,
               timestamp |-> parts[Len(parts) - 1],
               uuid |-> parts[Len(parts)]]

extract_uuid_from_filename(filename) == parse_eln_filename(filename).uuid

(***************************************************************************)
(* State.                                                                  *)
(***************************************************************************)
VARIABLES
    backend,        \* "local" (LocalJSONStorage) or "s3" (S3JSONStorage)
    document_type,  \* self.document_type the backend instance was constructed with
    config,         \* StorageConfig: the configured bucket names
    objs,           \* stored objects: records [bucket, key, body]
    now,            \* the UTC clock
    att,            \* the attach_files_to_eln call in progress
    res,            \* the last completed call and what it returned
    gen,            \* the FilenameGenerator call in progress
    reqs            \* the calls of concurrent requests, one per request

vars == <<backend, document_type, config, objs, now, att, res, gen, reqs>>

(***************************************************************************)
(* storage_base.py: bucket and key resolution.                             *)
(***************************************************************************)
NoBucket == "StorageError"

\* Bucket of a document type (second half of _get_bucket_name).
BucketOfType(doc_type) ==
    LET name == CASE doc_type = "drafts" -> config.draft_bucket_name
                  [] doc_type = "submissions" -> config.eln_bucket_name
                  [] doc_type = "sops" -> config.forms_bucket_name
                  [] OTHER -> "None"
        default == CASE doc_type = "drafts" -> "eln-drafts"
                     [] doc_type = "submissions" -> "eln"
                     [] doc_type = "sops" -> "forms"
                     [] OTHER -> NoBucket
    IN IF name # "None" THEN name
       ELSE IF config.is_testing THEN default ELSE NoBucket

\* _get_bucket_name(key): the document type is read off the key prefix.
BucketOfKey(key) ==
    IF StartsWith(key, <<"drafts", "/">>) THEN BucketOfType("drafts")
    ELSE IF StartsWith(key, <<"submissions", "/">>) THEN BucketOfType("submissions")
    ELSE IF StartsWith(key, <<"sops", "/">>) THEN BucketOfType("sops")
    ELSE NoBucket

\* _get_bucket_name(): the bucket of self.document_type.
BucketOfSelf == BucketOfType(document_type)

\* _get_document_key for drafts and submissions.
get_document_key(sop_id, filename, doc_type) == <<doc_type, "/">> \o sop_id \o <<"/">> \o filename

(***************************************************************************)
(* The backend primitives of storage_local.py and storage_s3.py, as        *)
(* functions of the stored objects S.                                      *)
(***************************************************************************)
StorageBucket(key) == BucketOfKey(key)

RetrievalBucket(key) == BucketOfKey(key)

ListingBucket(prefix) == IF backend = "local" THEN BucketOfKey(prefix) ELSE BucketOfSelf

HeadBucket(key) == IF backend = "local" THEN BucketOfKey(key) ELSE BucketOfSelf

DeletionBucket(key) ==
    IF backend = "local" THEN BucketOfKey(key)
    ELSE IF StartsWith(key, <<"drafts", "/">>)
         THEN (IF config.draft_bucket_name = "None" THEN NoBucket ELSE config.draft_bucket_name)
    ELSE IF StartsWith(key, <<"submissions", "/">>)
         THEN (IF config.eln_bucket_name = "None" THEN NoBucket ELSE config.eln_bucket_name)
    ELSE BucketOfSelf

CopySourceBucket(source_key) ==
    IF backend = "local" THEN BucketOfKey(source_key)
    ELSE IF StartsWith(source_key, <<"drafts", "/">>)
         THEN (IF config.draft_bucket_name = "None" THEN NoBucket ELSE config.draft_bucket_name)
    ELSE BucketOfSelf

CopyDestBucket(dest_key) ==
    IF backend = "local" THEN BucketOfKey(dest_key)
    ELSE IF StartsWith(dest_key, <<"submissions", "/">>)
         THEN (IF config.eln_bucket_name = "None" THEN NoBucket ELSE config.eln_bucket_name)
    ELSE BucketOfSelf

\* _list_files_in_bucket(prefix, 'draft_bucket_name')
DraftFilesBucket ==
    IF config.draft_bucket_name = "None" THEN NoBucket ELSE config.draft_bucket_name

Has(S, bucket, key) == \E o \in S : o.bucket = bucket /\ o.key = key

BodyAt(S, bucket, key) == (CHOOSE o \in S : o.bucket = bucket /\ o.key = key).body

Put(S, bucket, key, body) ==
    {o \in S : ~(o.bucket = bucket /\ o.key = key)}
        \cup {[bucket |-> bucket, key |-> key, body |-> body]}

Remove(S, bucket, key) == {o \in S : ~(o.bucket = bucket /\ o.key = key)}

\* _perform_storage
perform_storage(S, key, body) == Put(S, StorageBucket(key), key, body)

\* _perform_head_check succeeds
head_ok(S, key) == Has(S, HeadBucket(key), key)

\* _perform_listing: the keys of the .json objects under the prefix.
perform_listing(S, prefix) ==
    {o.key : o \in {x \in S : /\ x.bucket = ListingBucket(prefix)
                              /\ StartsWith(x.key, prefix)
                              /\ EndsWith(x.key, <<".json">>)}}

\* _list_files_in_bucket: the keys of the files in the drafts bucket whose name
\* starts with the last path part of the prefix, in the directory of the prefix.
list_files_in_bucket(S, prefix) ==
    {o.key : o \in {x \in S : /\ x.bucket = DraftFilesBucket
                              /\ StartsWith(x.key, prefix)
                              /\ (backend = "local" =>
                                    LastIndexOf(x.key, "/") = LastIndexOf(prefix, "/"))}}

\* The I/O outcomes of a backend call: it succeeds, the object is reported
\* missing (FileNotFoundError, NoSuchKey / 404), or another error is raised
\* (PermissionError, an OSError, on the filesystem; AccessDenied from S3).
IOErrors == {"ok", "ioerror"}

\* _is_not_found_error
is_not_found_error(e) ==
    IF backend = "local" THEN e \in {"notfound", "ioerror"} ELSE e = "notfound"

\* Listing order. The filesystem yields directory entries in any order; S3
\* lists keys in ascending order.
SymOrder == <<"-", ".json", ".pdf", "/", "T0", "T1", "T2", "T3", "T4", "T5",
              "__HYPHEN__", "a", "attachments", "b", "draft", "drafts", "f",
              "final", "g", "p", "q", "submissions", "u", "v", "w", "x">>

Rank(c) ==
    IF \E i \in 1..Len(SymOrder) : SymOrder[i] = c
    THEN CHOOSE i \in 1..Len(SymOrder) : SymOrder[i] = c
    ELSE 0

RECURSIVE KeyLess(_, _)
KeyLess(k1, k2) ==
    IF k1 = <<>> THEN k2 # <<>>
    ELSE IF k2 = <<>> THEN FALSE
    ELSE IF Head(k1) = Head(k2) THEN KeyLess(Tail(k1), Tail(k2))
    ELSE Rank(Head(k1)) < Rank(Head(k2))

\* The keys that a listing of the set K can return first.
Firsts(K) ==
    IF backend = "local" THEN K
    ELSE {k \in K : \A k2 \in K : k2 = k \/ KeyLess(k, k2)}

(***************************************************************************)
(* Inputs drawn by the callers.                                            *)
(***************************************************************************)
Sops == {<<"S1">>, <<"S2">>}
DocSops == {<<"S1">>}
Users == {<<"u">>, <<"u", "v">>}
DocUsers == {<<"u">>}
VarLists == {<< <<"p">> >>}

\* Field ids as the frontend knows them, and as embedded in temp filenames.
FieldPlain == <<"f">>
FieldHyphen == <<"f", "-", "g">>

\* The value of a file-upload field before attachment.
FileFieldValue == [fileIds |-> <<"a">>, files |-> <<>>, uploadedUrls |-> <<"tmp">>]

FormDataPlain == (<<"n">> :> [value |-> "v1"])
FormDataOther == (<<"n">> :> [value |-> "v2"])
FormDataFiles ==
    (<<"n">> :> [value |-> "v1"]) @@ (FieldPlain :> FileFieldValue)
        @@ (FieldHyphen :> FileFieldValue)

DraftDatas == {FormDataPlain, FormDataOther}

\* What a submission carries: the form data and the field definitions of the
\* SOP. The file field is either filled in, or only declared by the SOP.
FinalPayloads ==
    {[data |-> FormDataFiles, field_definitions |-> <<>>],
     [data |-> FormDataPlain,
      field_definitions |-> <<[id |-> FieldHyphen, type |-> "file"]>>]}

(***************************************************************************)
(* document_utils.py                                                       *)
(***************************************************************************)
\* A checksum that is the empty string.
empty_checksum(data) == <<>>

\* calculate_checksum: SHA-256 of the canonical JSON of the data, one digest
\* per value.
calculate_checksum(data) == <<"sha256", data>>

\* The draft id with the extension left on.
WholeFilename(filename) == filename

\* filename[:-5] when the filename ends with .json
Basename(filename) ==
    IF EndsWith(filename, <<".json">>) THEN SubSeq(filename, 1, Len(filename) - 1)
    ELSE filename

\* prepare_document. Fields no modelled operation reads (session_id,
\* sop_metadata, @context, @type, title, completion_percentage, size_bytes)
\* are left out. draft_uuid / draft_id are "" (the empty string) when None.
prepare_document(document_uuid, filename, sop_id, user_id, status, timestamp, data, is_draft, field_definitions, checksum, draft_uuid, draft_id) ==
    IF is_draft
    THEN [kind |-> "doc",
          draft_id |-> Basename(filename),
          draft_uuid |-> document_uuid,
          filename |-> filename,
          sop_id |-> sop_id,
          user_id |-> user_id,
          timestamp |-> timestamp,
          form_data |-> data,
          status |-> status]
    ELSE [kind |-> "doc",
          draft_id |-> draft_id,
          draft_uuid |-> draft_uuid,
          filename |-> filename,
          sop_id |-> sop_id,
          user_id |-> user_id,
          timestamp |-> timestamp,
          form_data |-> data,
          status |-> status,
          eln_uuid |-> document_uuid,
          field_definitions |-> field_definitions,
          checksum |-> checksum]

(***************************************************************************)
(* storage_base.py: _store_document and save_document.                     *)
(***************************************************************************)
\* _validate_storage_constraints: TRUE when the write may proceed.
validate_storage_constraints(S, key) ==
    IF document_type = "submissions" THEN ~head_ok(S, key) ELSE TRUE

\* _store_document: the objects after the call and the error raised, if any.
store_document(S, key, body) ==
    IF document_type = "submissions" /\ HeadBucket(key) = NoBucket
    THEN [objs |-> S, err |-> "StorageError"]
    ELSE IF ~validate_storage_constraints(S, key)
    THEN [objs |-> S, err |-> "ImmutableStorageError"]
    ELSE IF StorageBucket(key) = NoBucket
    THEN [objs |-> S, err |-> "StorageError"]
    ELSE [objs |-> perform_storage(S, key, body), err |-> "ok"]

Docs(S) == {o \in S : o.body.kind = "doc"}

TempPrefix(sop_id) == <<"drafts", "/">> \o sop_id \o <<"/", "attachments", "/">>

FinalPrefix(sop_id) == <<"submissions", "/">> \o sop_id \o <<"/", "attachments", "/">>

Blobs(S) == {o \in S : o.body.kind = "blob"}

StatusOf(doc_type) == IF doc_type = "drafts" THEN "draft" ELSE "final"

Idle == [pc |-> "idle"]

\* No FilenameGenerator call of its own is in progress.
NoCall == [pc |-> "none"]

\* The requests the server handles at the same time, none of them in a call.
Requests == {1, 2}

NoRequests == [r \in Requests |-> [pc |-> "idle"]]

\* The outcome of save_document on the objects S.
save_document(S, doc_type, sop_id, user_id, filename_variables, data, field_definitions, draft_uuid, draft_id, t, short_uuid) ==
    LET status == StatusOf(doc_type)
        filename == generate_filename(status, user_id, filename_variables, <<>>, t, short_uuid)
        document_uuid == extract_uuid_from_filename(filename)
        is_draft == doc_type = "drafts"
        document == prepare_document(document_uuid, filename, sop_id, user_id, status, t,
                        data, is_draft, field_definitions,
                        IF is_draft THEN <<>> ELSE calculate_checksum(data),
                        draft_uuid, draft_id)
        return_id == IF is_draft THEN document.draft_id ELSE document_uuid
        key == get_document_key(sop_id, filename, doc_type)
        stored == store_document(S, key, document)
    IN [objs |-> stored.objs, err |-> stored.err, key |-> key,
        return_id |-> return_id, document |-> document]

\* BaseJSONStorage.save_document called on the backend instance.
SaveDocument(doc_type, sop_id, user_id, filename_variables, data, field_definitions, short_uuid) ==
    /\ att.pc = "idle"
    /\ Cardinality(objs) < MaxObjects
    /\ LET out == save_document(objs, doc_type, sop_id, user_id, filename_variables, data,
                                field_definitions, <<>>, <<>>, now, short_uuid)
       IN /\ objs' = out.objs
          /\ res' = [op |-> "save", document_type |-> doc_type, sop_id |-> sop_id,
                     key |-> out.key, data |-> data, err |-> out.err, return_id |-> out.return_id]
    /\ UNCHANGED <<reqs, gen, backend, document_type, config, now, att>>

\* get_document that lets StorageNotFoundError through to its caller.
get_document_raising(S, doc_type, sop_id, file_basename) ==
    LET key == get_document_key(sop_id, file_basename \o <<".json">>, doc_type)
        bucket == RetrievalBucket(key)
    IN IF bucket = NoBucket \/ ~Has(S, bucket, key) THEN [err |-> "StorageError"]
       ELSE IF BodyAt(S, bucket, key).kind # "doc" THEN [err |-> "StorageError"]
       ELSE [err |-> "ok", document |-> BodyAt(S, bucket, key)]

\* get_document: the stored document, "None" when the key is absent,
\* "StorageError" when the object is not a JSON document.
get_document(S, doc_type, sop_id, file_basename) ==
    LET key == get_document_key(sop_id, file_basename \o <<".json">>, doc_type)
        bucket == RetrievalBucket(key)
    IN IF bucket = NoBucket THEN [err |-> "StorageError"]
       ELSE IF ~Has(S, bucket, key) THEN [err |-> "None"]
       ELSE IF BodyAt(S, bucket, key).kind # "doc" THEN [err |-> "StorageError"]
       ELSE [err |-> "ok", document |-> BodyAt(S, bucket, key)]

\* routes/drafts.py update_draft, on the StorageManager's backend: look the
\* draft up, then save_document("drafts", ...).
UpdateDraft(draft_id, sop_id, user_id, filename_variables, data, short_uuid) ==
    /\ att.pc = "idle"
    /\ document_type = "drafts"
    /\ Cardinality(objs) < MaxObjects
    /\ LET found == get_document(objs, "drafts", sop_id, draft_id)
           out == save_document(objs, "drafts", sop_id, user_id, filename_variables, data,
                                <<>>, <<>>, <<>>, now, short_uuid)
       IN IF found.err = "StorageError"
          THEN /\ objs' = objs
               /\ res' = [op |-> "update", draft_id |-> draft_id, sop_id |-> sop_id,
                          data |-> data, err |-> "StorageError", return_id |-> <<>>]
          ELSE /\ objs' = out.objs
               /\ res' = [op |-> "update", draft_id |-> draft_id, sop_id |-> sop_id,
                          data |-> data, err |-> out.err, return_id |-> out.return_id]
    /\ UNCHANGED <<reqs, gen, backend, document_type, config, now, att>>

\* _delete_document without an I/O error: the filesystem reports whether the
\* file was there, delete_object of S3 always answers True.
delete_document(S, key) ==
    LET bucket == DeletionBucket(key) IN
    IF bucket = NoBucket THEN [objs |-> S, ret |-> "StorageError"]
    ELSE IF backend = "local"
    THEN [objs |-> Remove(S, bucket, key),
          ret |-> IF Has(S, bucket, key) THEN "True" ELSE "False"]
    ELSE [objs |-> Remove(S, bucket, key), ret |-> "True"]

\* delete_draft
DeleteDraft(sop_id, draft_id) ==
    /\ att.pc = "idle"
    /\ LET out == delete_document(objs,
                      get_document_key(sop_id, draft_id \o <<".json">>, "drafts"))
       IN /\ objs' = out.objs
          /\ res' = [op |-> "delete", sop_id |-> sop_id, draft_id |-> draft_id,
                     ret |-> out.ret]
    /\ UNCHANGED <<reqs, gen, backend, document_type, config, now, att>>

\* The draft ids a caller may name: those of the stored drafts and one that
\* was never issued.
DraftIds(S) ==
    {o.body.draft_id : o \in {x \in Docs(S) : x.body.status = "draft"}}
        \cup {<<"draft", "-", "x">>}

(***************************************************************************)
(* storage_base.py: cleanup_old_drafts.                                    *)
(***************************************************************************)
\* Whether the name timedelta is bound in storage_base.py: the module
\* imports only datetime and timezone from datetime.
TimedeltaImported == FALSE

\* retention periods, in clock units
RetentionDays == {0, 1}

\* The drafts of the SOP that the sweep finds older than the cutoff.
OldDraftKeys(S, sop_id, retention_days, t) ==
    {k \in perform_listing(S, <<"drafts", "/">> \o sop_id \o <<"/">>) :
        /\ Has(S, RetrievalBucket(k), k)
        /\ BodyAt(S, RetrievalBucket(k), k).kind = "doc"
        /\ BodyAt(S, RetrievalBucket(k), k).timestamp < t - retention_days}

RECURSIVE DeleteAll(_, _)
DeleteAll(S, keys) ==
    IF keys = {} THEN S
    ELSE LET k == CHOOSE x \in keys : TRUE
         IN DeleteAll(delete_document(S, k).objs, keys \ {k})

\* cleanup_old_drafts: evaluating timedelta(days=retention_days) raises
\* NameError when the name is unbound; the outer handler logs it and
\* returns 0.
cleanup_old_drafts(S, sop_id, retention_days, t) ==
    IF ~TimedeltaImported
    THEN [objs |-> S, deleted |-> 0]
    ELSE LET old == OldDraftKeys(S, sop_id, retention_days, t)
         IN [objs |-> DeleteAll(S, old),
             deleted |-> Cardinality({k \in old : delete_document(S, k).ret = "True"})]

CleanupOldDrafts(sop_id, retention_days) ==
    /\ att.pc = "idle"
    /\ LET out == cleanup_old_drafts(objs, sop_id, retention_days, now)
       IN /\ objs' = out.objs
          /\ res' = [op |-> "cleanup", sop_id |-> sop_id,
                     retention_days |-> retention_days, deleted |-> out.deleted]
    /\ UNCHANGED <<reqs, gen, backend, document_type, config, now, att>>

(***************************************************************************)
(* store_temp_file (storage_local.py, storage_s3.py).                      *)
(***************************************************************************)
FileIds == {<<"a">>, <<"b">>}
TempFields == {<<"f", "__HYPHEN__", "g">>}
OriginalNames == {<<"x", ".pdf">>}
Contents == {"c1", "c2"}

TempFilename(user_id, field_id, file_id, filename) ==
    user_id \o <<"-">> \o field_id \o <<"-">> \o file_id \o <<"-">> \o filename

store_temp_file(S, file_id, content, filename, user_id, field_id, sop_id) ==
    LET bucket == IF backend = "local" THEN BucketOfKey(<<"drafts", "/">>)
                  ELSE DraftFilesBucket
        key == TempPrefix(sop_id) \o TempFilename(user_id, field_id, file_id, filename)
    IN IF bucket = NoBucket THEN [objs |-> S, err |-> "StorageError", key |-> key]
       ELSE [objs |-> Put(S, bucket, key, [kind |-> "blob", data |-> content]),
             err |-> "ok", key |-> key]

TempFiles(S) == {o \in Blobs(S) : StartsWith(o.key, <<"drafts", "/">>)}

StoreTempFile(file_id, content, filename, user_id, field_id, sop_id) ==
    /\ att.pc = "idle"
    /\ Cardinality(objs) < MaxObjects
    /\ LET out == store_temp_file(objs, file_id, content, filename, user_id, field_id, sop_id)
       IN /\ objs' = out.objs
          /\ res' = [op |-> "store_temp", key |-> out.key, err |-> out.err]
    /\ UNCHANGED <<reqs, gen, backend, document_type, config, now, att>>

(***************************************************************************)
(* The validation methods of the backends and                              *)
(* StorageManager.validate_attach_files_request (storage_factory.py).      *)
(***************************************************************************)
\* The SOP files present under forms/sops.
SopFiles == {<<"S1", ".yaml">>}
SopExts == {".yaml", ".yml", ".json"}

Stem(name) == SubSeq(name, 1, Len(name) - 1)

validate_sop_exists(sop_id) ==
    \E name \in SopFiles :
        /\ name[Len(name)] \in SopExts
        /\ LET filename == LowerAll(Stem(name))
               sop_id_lower == LowerAll(sop_id)
           IN \/ IF backend = "local"
                 THEN Stem(name) \in {sop_id, <<"sop">> \o sop_id}
                 ELSE /\ config.forms_bucket_name # "None"
                      /\ \/ StartsWith(name, sop_id)
                         \/ StartsWith(name, <<"sop">> \o sop_id)
              \/ /\ backend = "s3" => config.forms_bucket_name # "None"
                 /\ \/ filename = sop_id_lower
                    \/ filename = <<"sop">> \o sop_id_lower
                    \/ EndsWith(filename, sop_id_lower)

\* The bucket of the final documents as the validation methods find it: a
\* directory name in storage_local.py, the configuration in storage_s3.py.
ValidationElnBucket == IF backend = "local" THEN "eln" ELSE config.eln_bucket_name

ValidationDraftBucket ==
    IF backend = "local" THEN "eln-drafts" ELSE config.draft_bucket_name

\* The keys in which validate_eln_exists and load_eln_for_validation look for
\* eln_uuid: the files directly in submissions/{sop_id} (storage_local.py),
\* every key under the prefix submissions/{sop_id}/ (storage_s3.py).
ElnMatches(S, sop_id, eln_uuid) ==
    LET submissions_prefix == <<"submissions", "/">> \o sop_id \o <<"/">> IN
    {o.key : o \in {x \in S :
        /\ x.bucket = ValidationElnBucket
        /\ StartsWith(x.key, submissions_prefix)
        /\ IF backend = "local"
           THEN /\ LastIndexOf(x.key, "/") = Len(submissions_prefix)
                /\ Contains(LastSegment(x.key), eln_uuid)
           ELSE Contains(x.key, eln_uuid)}}

validate_eln_exists(S, sop_id, eln_uuid) == ElnMatches(S, sop_id, eln_uuid) # {}

\* load_eln_for_validation reads the key `eln_key`, the first match of its
\* listing. `fault` is the I/O outcome of the read.
load_eln_for_validation(S, eln_key, fault) ==
    IF eln_key = <<>> \/ fault = "load_notfound" THEN [err |-> "StorageNotFoundError"]
    ELSE IF fault = "load" THEN [err |-> "StorageError"]
    ELSE IF BodyAt(S, ValidationElnBucket, eln_key).kind # "doc"
    THEN [err |-> "StorageError"]
    ELSE [err |-> "ok", document |-> BodyAt(S, ValidationElnBucket, eln_key)]

validate_field_exists_in_eln(eln_data, field_id) ==
    LET unescaped_field_id == unescape_field_id(field_id) IN
    \/ field_id \in DOMAIN eln_data.form_data
    \/ unescaped_field_id \in DOMAIN eln_data.form_data
    \/ \E i \in 1..Len(eln_data.field_definitions) :
          /\ eln_data.field_definitions[i].id \in {field_id, unescaped_field_id}
          /\ eln_data.field_definitions[i].type = "file"

\* The name in which validate_temp_files_exist looks for the three ids.
TempHaystack(key) == IF backend = "local" THEN LastSegment(key) ELSE key

TempFound(S, sop_id, file_id, user_id, field_id) ==
    \E o \in S :
        /\ o.bucket = ValidationDraftBucket
        /\ StartsWith(o.key, TempPrefix(sop_id))
        /\ backend = "local" => LastIndexOf(o.key, "/") = Len(TempPrefix(sop_id))
        /\ Contains(TempHaystack(o.key), file_id)
        /\ Contains(TempHaystack(o.key), user_id)
        /\ Contains(TempHaystack(o.key), field_id)

RECURSIVE validate_temp_files_exist(_, _, _, _, _)
validate_temp_files_exist(S, sop_id, file_ids, user_id, field_id) ==
    IF file_ids = <<>> THEN <<>>
    ELSE (IF TempFound(S, sop_id, Head(file_ids), user_id, field_id)
          THEN <<>> ELSE <<Head(file_ids)>>)
         \o validate_temp_files_exist(S, sop_id, Tail(file_ids), user_id, field_id)

\* The backend call of a validation that raises: none, or one of the four.
ValidationFaults == {"none", "sop", "eln", "load", "load_notfound", "temp"}

ValidationResult(valid, errors, missing_files, checks) ==
    [valid |-> valid, errors |-> errors, missing_files |-> missing_files,
     checks |-> checks]

\* validate_attach_files_request without the return that follows a missing
\* final document: the load is attempted all the same.
validate_without_eln_return(S, eln_uuid, field_id, file_ids, user_id, sop_id, eln_key, fault) ==
    LET sop_valid == validate_sop_exists(sop_id)
        eln_valid == validate_eln_exists(S, sop_id, eln_uuid)
        eln_data == load_eln_for_validation(S, eln_key, fault)
        missing_files == validate_temp_files_exist(S, sop_id, file_ids, user_id, field_id)
    IN IF fault = "sop"
       THEN ValidationResult(FALSE, <<"validation_error">>, <<>>, <<"sop">>)
       ELSE IF ~sop_valid
       THEN ValidationResult(FALSE, <<"sop_not_found">>, <<>>, <<"sop">>)
       ELSE IF fault = "eln" \/ (backend = "s3" /\ config.eln_bucket_name = "None")
       THEN ValidationResult(FALSE, <<"validation_error">>, <<>>, <<"sop", "eln">>)
       ELSE IF eln_data.err = "StorageNotFoundError"
       THEN ValidationResult(FALSE, <<"eln_load_failed">>, <<>>, <<"sop", "eln", "load">>)
       ELSE IF eln_data.err # "ok"
       THEN ValidationResult(FALSE, <<"eln_corrupted">>, <<>>, <<"sop", "eln", "load">>)
       ELSE IF ~validate_field_exists_in_eln(eln_data.document, field_id)
       THEN ValidationResult(FALSE, <<"field_not_found">>, <<>>,
                             <<"sop", "eln", "load", "field">>)
       ELSE IF fault = "temp" \/ (backend = "s3" /\ config.draft_bucket_name = "None")
       THEN ValidationResult(FALSE, <<"validation_error">>, <<>>,
                             <<"sop", "eln", "load", "field", "temp">>)
       ELSE IF missing_files # <<>>
       THEN ValidationResult(FALSE, <<"files_not_found">>, missing_files,
                             <<"sop", "eln", "load", "field", "temp">>)
       ELSE ValidationResult(TRUE, <<>>, <<>>, <<"sop", "eln", "load", "field", "temp">>)

\* validate_attach_files_request. `checks` lists the backend calls made.
validate_attach_files_request(S, eln_uuid, field_id, file_ids, user_id, sop_id, eln_key, fault) ==
    LET sop_valid == validate_sop_exists(sop_id)
        eln_valid == validate_eln_exists(S, sop_id, eln_uuid)
        eln_data == load_eln_for_validation(S, eln_key, fault)
        missing_files == validate_temp_files_exist(S, sop_id, file_ids, user_id, field_id)
    IN IF fault = "sop"
       THEN ValidationResult(FALSE, <<"validation_error">>, <<>>, <<"sop">>)
       ELSE IF ~sop_valid
       THEN ValidationResult(FALSE, <<"sop_not_found">>, <<>>, <<"sop">>)
       ELSE IF fault = "eln" \/ (backend = "s3" /\ config.eln_bucket_name = "None")
       THEN ValidationResult(FALSE, <<"validation_error">>, <<>>, <<"sop", "eln">>)
       ELSE IF ~eln_valid
       THEN ValidationResult(FALSE, <<"eln_not_found">>, <<>>, <<"sop", "eln">>)
       ELSE IF eln_data.err = "StorageNotFoundError"
       THEN ValidationResult(FALSE, <<"eln_load_failed">>, <<>>, <<"sop", "eln", "load">>)
       ELSE IF eln_data.err # "ok"
       THEN ValidationResult(FALSE, <<"eln_corrupted">>, <<>>, <<"sop", "eln", "load">>)
       ELSE IF ~validate_field_exists_in_eln(eln_data.document, field_id)
       THEN ValidationResult(FALSE, <<"field_not_found">>, <<>>,
                             <<"sop", "eln", "load", "field">>)
       ELSE IF fault = "temp" \/ (backend = "s3" /\ config.draft_bucket_name = "None")
       THEN ValidationResult(FALSE, <<"validation_error">>, <<>>,
                             <<"sop", "eln", "load", "field", "temp">>)
       ELSE IF missing_files # <<>>
       THEN ValidationResult(FALSE, <<"files_not_found">>, missing_files,
                             <<"sop", "eln", "load", "field", "temp">>)
       ELSE ValidationResult(TRUE, <<>>, <<>>, <<"sop", "eln", "load", "field", "temp">>)

\* The keys that the listing of load_eln_for_validation can return first.
ElnCandidates(S, sop_id, eln_uuid) ==
    IF ElnMatches(S, sop_id, eln_uuid) = {} THEN {<<>>}
    ELSE Firsts(ElnMatches(S, sop_id, eln_uuid))

\* A call of validate_attach_files_request; att holds the request and its
\* result until the caller takes it.
ValidateAttach(eln_uuid, field_id, file_ids, user_id, sop_id, fault) ==
    /\ att.pc = "idle"
    /\ \E eln_key \in ElnCandidates(objs, sop_id, eln_uuid) :
          att' = [pc |-> "validated", eln_uuid |-> eln_uuid, field_id |-> field_id,
                  file_ids |-> file_ids, user_id |-> user_id, sop_id |-> sop_id,
                  fault |-> fault, eln_key |-> eln_key,
                  validation |-> validate_attach_files_request(objs, eln_uuid, field_id,
                                     file_ids, user_id, sop_id, eln_key, fault)]
    /\ res' = [op |-> "validate"]
    /\ UNCHANGED <<reqs, gen, backend, document_type, config, objs, now>>

\* The caller takes the result and does nothing more.
ValidateReturn ==
    /\ att.pc = "validated"
    /\ att' = Idle
    /\ UNCHANGED <<reqs, gen, backend, document_type, config, objs, now, res>>

(***************************************************************************)
(* storage_base.py: attach_files_to_eln, one step per awaited backend      *)
(* call. att.pre (the objects when the call began) and att.delete_errors   *)
(* (the files whose deletion hit an I/O error) only record the history.    *)
(***************************************************************************)
FileIdLists == {<<<<"a">>>>, <<<<"a">>, <<"b">>>>}
AttachFields == {<<"f", "__HYPHEN__", "g">>, <<"f">>}
AttachUsers == {<<"u">>}
ElnUuids == {<<"a">>}

\* The state of a call of attach_files_to_eln at its first statement.
AttachStart(eln_uuid, field_id, file_ids, user_id, sop_id, validated) ==
    [pc |-> "locate", eln_uuid |-> eln_uuid, field_id |-> field_id,
     file_ids |-> file_ids, user_id |-> user_id, sop_id |-> sop_id,
     idx |-> 1, temp_key |-> <<>>, final_key |-> <<>>,
     final_urls |-> <<>>, file_info_list |-> <<>>,
     eln_key |-> <<>>, eln_doc |-> [kind |-> "none"],
     failed |-> "none", fault |-> "none", writes |-> 0, delete_errors |-> {},
     validated |-> validated, pre |-> objs]

\* A direct call of attach_files_to_eln.
AttachBegin(eln_uuid, field_id, file_ids, user_id, sop_id) ==
    /\ att.pc = "idle"
    /\ att' = AttachStart(eln_uuid, field_id, file_ids, user_id, sop_id, FALSE)
    /\ res' = [op |-> "attach"]
    /\ UNCHANGED <<reqs, gen, backend, document_type, config, objs, now>>

\* routes/files.py attach_files_to_eln: the request that passed the
\* validation goes on to storage.attach_files_to_eln.
AttachValidated ==
    /\ att.pc = "validated"
    /\ att.validation.valid
    /\ att' = AttachStart(att.eln_uuid, att.field_id, att.file_ids, att.user_id,
                          att.sop_id, TRUE)
    /\ res' = [op |-> "attach"]
    /\ UNCHANGED <<reqs, gen, backend, document_type, config, objs, now>>

\* f"{user_id}-{field_id}-{file_id}-"
NamePrefix(user_id, field_id, file_id) ==
    user_id \o <<"-">> \o field_id \o <<"-">> \o file_id \o <<"-">>

\* temp_key_prefix of the move stage
TempKeyPrefix(sop_id, user_id, field_id, file_id) ==
    TempPrefix(sop_id) \o NamePrefix(user_id, field_id, file_id)

\* The exception of a step leaves the loop: attach raises StorageError.
AttachFail(stage, e) ==
    /\ att' = [att EXCEPT !.pc = "failed", !.failed = stage,
                          !.fault = IF e # "ok" THEN stage ELSE "none"]
    /\ UNCHANGED <<reqs, gen, backend, document_type, config, objs, now, res>>

\* file_keys = await self._list_files_in_bucket(temp_key_prefix, ...)
AttachLocate(e) ==
    /\ att.pc = "locate"
    /\ LET file_id == att.file_ids[att.idx]
           keys == list_files_in_bucket(objs,
                       TempKeyPrefix(att.sop_id, att.user_id, att.field_id, file_id))
       IN IF e # "ok" \/ DraftFilesBucket = NoBucket \/ keys = {}
          THEN AttachFail("locate", e)
          ELSE /\ \E temp_key \in Firsts(keys) :
                    att' = [att EXCEPT !.pc = "copy", !.temp_key = temp_key]
               /\ UNCHANGED <<reqs, gen, backend, document_type, config, objs, now, res>>

\* final_key, then await self._copy_file(temp_key, final_key)
AttachCopy(e) ==
    /\ att.pc = "copy"
    /\ LET final_filename == process_temp_filename(LastSegment(att.temp_key))
           final_key == FinalPrefix(att.sop_id) \o final_filename
           src == CopySourceBucket(att.temp_key)
           dst == CopyDestBucket(final_key)
       IN IF e # "ok" \/ src = NoBucket \/ dst = NoBucket \/ ~Has(objs, src, att.temp_key)
          THEN AttachFail("copy", e)
          ELSE /\ objs' = Put(objs, dst, final_key, BodyAt(objs, src, att.temp_key))
               /\ att' = [att EXCEPT !.pc = "delete", !.final_key = final_key]
               /\ UNCHANGED <<reqs, gen, backend, document_type, config, now, res>>

\* original_name of the move stage
OriginalName(temp_filename, user_id, field_id, file_id) ==
    LET prefix_to_remove == NamePrefix(user_id, field_id, file_id) IN
    IF StartsWith(temp_filename, prefix_to_remove)
    THEN SubSeq(temp_filename, Len(prefix_to_remove) + 1, Len(temp_filename))
    ELSE temp_filename

\* await self._delete_document(temp_key), then the two appends. An error of
\* the deletion that _is_not_found_error accepts makes _delete_document
\* return False, which the move stage does not look at.
AttachDelete(e) ==
    /\ att.pc = "delete"
    /\ LET file_id == att.file_ids[att.idx]
           out == delete_document(objs, att.temp_key)
           raised == \/ out.ret = "StorageError"
                     \/ (e # "ok" /\ ~is_not_found_error(e))
           info == [finalPath |-> att.final_key,
                    originalName |-> OriginalName(LastSegment(att.temp_key), att.user_id,
                                                  att.field_id, file_id),
                    fileId |-> file_id]
           seen == IF e # "ok" THEN att.delete_errors \cup {att.idx} ELSE att.delete_errors
       IN IF raised
          THEN /\ att' = [att EXCEPT !.pc = "failed", !.failed = "delete",
                                     !.fault = IF e # "ok" THEN "delete" ELSE "none",
                                     !.delete_errors = seen]
               /\ UNCHANGED <<reqs, gen, backend, document_type, config, objs, now, res>>
          ELSE /\ objs' = IF e = "ok" THEN out.objs ELSE objs
               /\ att' = [att EXCEPT
                            !.pc = IF att.idx = Len(att.file_ids) THEN "patch_load"
                                   ELSE "locate",
                            !.idx = att.idx + 1,
                            !.final_urls = Append(att.final_urls, att.final_key),
                            !.file_info_list = Append(att.file_info_list, info),
                            !.delete_errors = seen]
               /\ UNCHANGED <<reqs, gen, backend, document_type, config, now, res>>

\* The file field replaced by the new files array alone.
ReplaceField(value, file_info_list) == [files |-> file_info_list]

\* The patch of the file field: the files array is replaced and the
\* uploadedUrls key removed.
PatchField(value, file_info_list) ==
    [k \in (DOMAIN value \cup {"files"}) \ {"uploadedUrls"} |->
        IF k = "files" THEN file_info_list ELSE value[k]]

\* Patch stage, the reads: list submissions/{sop_id}/, take the first key
\* that contains eln_uuid, load the document under its file name.
AttachPatchLoad ==
    /\ att.pc = "patch_load"
    /\ LET prefix == <<"submissions", "/">> \o att.sop_id \o <<"/">>
           matches == {k \in perform_listing(objs, prefix) : Contains(k, att.eln_uuid)}
           unescaped_field_id == unescape_field_id(att.field_id)
       IN IF ListingBucket(prefix) = NoBucket
          THEN AttachFail("patch", "ok")
          ELSE IF matches = {}
          THEN /\ att' = [att EXCEPT !.pc = "done"]
               /\ UNCHANGED <<reqs, gen, backend, document_type, config, objs, now, res>>
          ELSE \E k \in Firsts(matches) :
                 LET eln_filename == LastSegment(k)
                     got == get_document(objs, "submissions", att.sop_id,
                                         Replace(eln_filename, ".json", <<>>))
                 IN IF got.err = "StorageError"
                    THEN AttachFail("patch", "ok")
                    ELSE IF got.err = "None"
                    THEN /\ att' = [att EXCEPT !.pc = "done"]
                         /\ UNCHANGED <<reqs, gen, backend, document_type, config, objs, now, res>>
                    ELSE IF unescaped_field_id \notin DOMAIN got.document.form_data
                    THEN /\ att' = [att EXCEPT !.pc = "done"]
                         /\ UNCHANGED <<reqs, gen, backend, document_type, config, objs, now, res>>
                    ELSE /\ att' = [att EXCEPT
                                      !.pc = "patch_store",
                                      !.eln_key = prefix \o eln_filename,
                                      !.eln_doc = [got.document EXCEPT
                                          !.form_data[unescaped_field_id] =
                                              PatchField(@, att.file_info_list)]]
                         /\ UNCHANGED <<reqs, gen, backend, document_type, config, objs, now, res>>

\* Patch stage, the write: await self._store_document(key, eln_doc, {})
AttachPatchStore ==
    /\ att.pc = "patch_store"
    /\ LET out == store_document(objs, att.eln_key, att.eln_doc)
       IN IF out.err # "ok"
          THEN AttachFail("patch", "ok")
          ELSE /\ objs' = out.objs
               /\ att' = [att EXCEPT !.pc = "done", !.writes = att.writes + 1]
               /\ UNCHANGED <<reqs, gen, backend, document_type, config, now, res>>

\* attach_files_to_eln returns final_urls or raises StorageError.
AttachReturn ==
    /\ att.pc \in {"done", "failed"}
    /\ att' = Idle
    /\ res' = [op |-> "attach", ok |-> att.pc = "done", final_urls |-> att.final_urls]
    /\ UNCHANGED <<reqs, gen, backend, document_type, config, objs, now>>

\* Time passes between calls.
Tick ==
    /\ att.pc = "idle"
    /\ now < MaxTime
    /\ now' = now + 1
    /\ UNCHANGED <<reqs, gen, backend, document_type, config, objs, att, res>>

(***************************************************************************)
(* metadata.py and storage_base.py: list_documents.  An optional argument  *)
(* is a set: {} for None, {v} for the value v.                             *)
(***************************************************************************)
Given(opt) == opt # {}

Val(opt) == CHOOSE v \in opt : TRUE

\* Python truth value of an optional string or list
Truthy(opt) == Given(opt) /\ Val(opt) # <<>>

\* Python truth value of an optional status, a string kept as one symbol
TruthyStatus(opt) == Given(opt) /\ Val(opt) # ""

\* Python truth value of an optional int
TruthyInt(opt) == Given(opt) /\ Val(opt) # 0

\* datetime.fromisoformat of the stored timestamp: save_document writes
\* datetime.now(timezone.utc).isoformat(), which carries the offset +00:00.
fromisoformat(timestamp) == [instant |-> timestamp, tzinfo |-> "utc"]

\* DraftMetadata.draft_uuid
draft_uuid_property(stored_draft_uuid, draft_id) ==
    IF stored_draft_uuid # <<>> THEN stored_draft_uuid
    ELSE LET parts == SplitAll(draft_id, "-") IN parts[Len(parts)]

\* DraftMetadata.from_dict / ELNMetadata.from_dict; valid = FALSE stands for
\* the KeyError of a missing key (session_id is written for drafts only,
\* eln_uuid for final documents only).
from_dict(metadata_class, document) ==
    IF metadata_class = "DraftMetadata"
    THEN IF "eln_uuid" \in DOMAIN document
         THEN [valid |-> FALSE]
         ELSE [valid |-> TRUE,
               draft_id |-> document.draft_id,
               draft_uuid |-> draft_uuid_property(document.draft_uuid, document.draft_id),
               sop_id |-> document.sop_id,
               user_id |-> document.user_id,
               timestamp |-> fromisoformat(document.timestamp)]
    ELSE IF "eln_uuid" \notin DOMAIN document
         THEN [valid |-> FALSE]
         ELSE [valid |-> TRUE,
               eln_uuid |-> document.eln_uuid,
               filename |-> document.filename,
               status |-> document.status,
               sop_id |-> document.sop_id,
               user_id |-> document.user_id,
               timestamp |-> fromisoformat(document.timestamp)]

\* safe_timestamp_key: a naive timestamp is taken as UTC.
safe_timestamp_key(item) ==
    IF item.timestamp.tzinfo = "None"
    THEN [item.timestamp EXCEPT !.tzinfo = "utc"]
    ELSE item.timestamp

\* The metadata class the callers pass for a document type.
MetadataClassOf(doc_type) == IF doc_type = "drafts" THEN "DraftMetadata" ELSE "ELNMetadata"

\* The filename variable filter of list_documents.
variables_match(filename, filename_variables) ==
    LET parsed == parse_eln_filename(filename) IN
    /\ parsed.valid
    /\ \A i \in 1..Len(filename_variables) :
          i <= Len(parsed.variables) /\ parsed.variables[i] = filename_variables[i]

\* The keys of the listing whose document passes the filters of
\* list_documents and converts to metadata.
listed_keys(S, doc_type, sop_id, metadata_class, user_id, status, filename_variables) ==
    LET prefix == IF doc_type = "drafts" /\ sop_id = <<>>
                  THEN <<"drafts", "/">>
                  ELSE <<doc_type, "/">> \o sop_id \o <<"/">>
    IN {k \in perform_listing(S, prefix) :
          /\ RetrievalBucket(k) # NoBucket
          /\ Has(S, RetrievalBucket(k), k)
          /\ LET document == BodyAt(S, RetrievalBucket(k), k) IN
             /\ document.kind = "doc"
             /\ ~(Truthy(user_id) /\ document.user_id # Val(user_id))
             /\ ~(TruthyStatus(status) /\ document.status # Val(status))
             /\ (Truthy(filename_variables)
                   => variables_match(document.filename, Val(filename_variables)))
             /\ from_dict(metadata_class, document).valid}

\* list_documents without its sort: the items in the order of the listing.
unsorted_orders(S, K, metadata_class) ==
    {s \in [1..Cardinality(K) -> K] :
        /\ \A i, j \in 1..Cardinality(K) : i # j => s[i] # s[j]
        /\ backend = "s3" => \A i \in 1..(Cardinality(K) - 1) : KeyLess(s[i], s[i + 1])}

\* The orders in which the n keys of K can come out of
\* items.sort(key=safe_timestamp_key, reverse=True): newest first, and, the
\* sort being stable, documents of one timestamp in the order of the listing.
sorted_orders(S, K, metadata_class) ==
    LET n == Cardinality(K)
        item(k) == from_dict(metadata_class, BodyAt(S, RetrievalBucket(k), k))
    IN {s \in [1..n -> K] :
          /\ \A i, j \in 1..n : i # j => s[i] # s[j]
          /\ \A i \in 1..(n - 1) :
                \/ safe_timestamp_key(item(s[i])).instant
                      > safe_timestamp_key(item(s[i + 1])).instant
                \/ /\ safe_timestamp_key(item(s[i])).instant
                         = safe_timestamp_key(item(s[i + 1])).instant
                   /\ (backend = "s3" => KeyLess(s[i], s[i + 1]))}

\* list_documents: the lists it can return. StorageError of the listing is
\* the result "StorageError".
list_documents(S, doc_type, sop_id, metadata_class, user_id, status, limit, filename_variables) ==
    LET K == listed_keys(S, doc_type, sop_id, metadata_class, user_id, status,
                         filename_variables)
        item(k) == from_dict(metadata_class, BodyAt(S, RetrievalBucket(k), k))
        cut(s) == IF TruthyInt(limit) /\ Val(limit) < Len(s)
                  THEN SubSeq(s, 1, Val(limit)) ELSE s
    IN {cut([i \in 1..Cardinality(K) |-> item(s[i])]) : s \in sorted_orders(S, K, metadata_class)}

(***************************************************************************)
(* Initial states: an empty store behind a freshly constructed backend.    *)
(* StorageManager constructs its backend with document_type "drafts";      *)
(* the callers that construct a backend themselves pass either type.       *)
(***************************************************************************)
Configs ==
    {[draft_bucket_name |-> "eln-drafts", eln_bucket_name |-> "eln",
      forms_bucket_name |-> "forms", is_testing |-> FALSE]}

Init ==
    /\ backend \in {"local", "s3"}
    /\ document_type \in {"drafts", "submissions"}
    /\ config \in Configs
    /\ objs = {}
    /\ now = 0
    /\ att = Idle
    /\ res = [op |-> "none"]
    /\ gen = NoCall
    /\ reqs = NoRequests

\* The backends' save_document, called without draft references.
Save(doc_type) ==
    \E sop_id \in DocSops, user_id \in DocUsers, fv \in VarLists, short_uuid \in ShortIds :
       \E p \in (IF doc_type = "drafts"
                 THEN {[data |-> d, field_definitions |-> <<>>] : d \in DraftDatas}
                 ELSE FinalPayloads) :
          SaveDocument(doc_type, sop_id, user_id, fv, p.data, p.field_definitions,
                       short_uuid)

\* The operations on drafts and final documents.
NextDocs ==
    \/ Save("drafts")
    \/ Save("submissions")
    \/ \E draft_id \in DraftIds(objs), sop_id \in DocSops, user_id \in DocUsers,
          fv \in VarLists, data \in DraftDatas, short_uuid \in ShortIds :
          UpdateDraft(draft_id, sop_id, user_id, fv, data, short_uuid)
    \/ \E sop_id \in DocSops, draft_id \in DraftIds(objs) : DeleteDraft(sop_id, draft_id)
    \/ \E sop_id \in DocSops, retention_days \in RetentionDays :
          CleanupOldDrafts(sop_id, retention_days)
    \/ Tick

\* The attachment workflow on final documents: upload, validate, attach.
NextFiles ==
    \/ Save("submissions")
    \/ \E file_id \in FileIds, content \in Contents, filename \in OriginalNames,
          user_id \in Users, field_id \in TempFields, sop_id \in DocSops :
          StoreTempFile(file_id, content, filename, user_id, field_id, sop_id)
    \/ \E eln_uuid \in ElnUuids, field_id \in AttachFields, file_ids \in FileIdLists,
          user_id \in AttachUsers, sop_id \in DocSops :
          AttachBegin(eln_uuid, field_id, file_ids, user_id, sop_id)
    \/ \E eln_uuid \in ElnUuids, field_id \in AttachFields, file_ids \in FileIdLists,
          user_id \in AttachUsers, sop_id \in Sops, fault \in ValidationFaults :
          ValidateAttach(eln_uuid, field_id, file_ids, user_id, sop_id, fault)
    \/ ValidateReturn
    \/ AttachValidated
    \/ \E e \in IOErrors : AttachLocate(e)
    \/ \E e \in IOErrors : AttachCopy(e)
    \/ \E e \in IOErrors : AttachDelete(e)
    \/ AttachPatchLoad
    \/ AttachPatchStore
    \/ AttachReturn

Next == NextDocs \/ NextFiles

\* Every operation, in any order.
Spec == Init /\ [][Next]_vars

\* The document operations alone.
SpecDocs == Init /\ [][NextDocs]_vars

\* The attachment workflow alone.
SpecFiles == Init /\ [][NextFiles]_vars

(***************************************************************************)
(* The document store as its callers use it: StorageManager.save_document, *)
(* get_document, list_documents and delete_draft, for two SOPs and two     *)
(* users.                                                                  *)
(***************************************************************************)
StoreSops == {<<"S1">>}
AskedSops == {<<"S1">>, <<"S2">>}
StoreUsers == {<<"u">>, <<"w">>}

\* StorageManager.save_document. The manager's backend is constructed with
\* document_type "drafts" (StorageManager._create_backend). For a final
\* document it first looks up the user's drafts of the SOP; a failure of
\* that listing is logged and leaves both references None.
ManagerSave(doc_type, sop_id, user_id, filename_variables, data, field_definitions, short_uuid) ==
    /\ att.pc = "idle"
    /\ document_type = "drafts"
    /\ Cardinality(objs) < MaxObjects
    /\ \E drafts \in list_documents(objs, "drafts", sop_id, "DraftMetadata", {user_id},
                                    {}, {}, {}) :
          LET found == /\ doc_type = "submissions"
                       /\ ListingBucket(<<"drafts", "/">> \o sop_id \o <<"/">>) # NoBucket
                       /\ drafts # <<>>
              draft_uuid == IF found THEN drafts[1].draft_uuid ELSE <<>>
              draft_id == IF found THEN drafts[1].draft_id ELSE <<>>
              out == save_document(objs, doc_type, sop_id, user_id, filename_variables, data,
                                   field_definitions, draft_uuid, draft_id, now, short_uuid)
          IN /\ objs' = out.objs
             /\ res' = [op |-> "manager_save", document_type |-> doc_type,
                        sop_id |-> sop_id, user_id |-> user_id, key |-> out.key,
                        data |-> data, err |-> out.err, return_id |-> out.return_id]
    /\ UNCHANGED <<reqs, gen, backend, document_type, config, now, att>>

\* The basenames a caller may ask for: those of the stored documents, the
\* draft id just deleted, and one that was never issued.
Basenames(S) ==
    {Basename(o.body.filename) : o \in Docs(S)}
        \cup (IF res.op = "delete" THEN {res.draft_id} ELSE {})
        \cup {<<"draft", "-", "x">>}

\* get_document
GetDocument(doc_type, sop_id, file_basename) ==
    /\ att.pc = "idle"
    /\ res' = [op |-> "get", document_type |-> doc_type, sop_id |-> sop_id,
               file_basename |-> file_basename,
               out |-> get_document(objs, doc_type, sop_id, file_basename)]
    /\ UNCHANGED <<reqs, gen, backend, document_type, config, objs, now, att>>

\* The filters and limits the callers of list_documents pass.
UserFilters == {{}, {<<"u">>}}
StatusFilters == {{}, {"draft"}}
VariableFilters == {{}, {<< <<"p">> >>}}
Limits == {{}, {0}, {1}}

\* The users and filename variables of the documents that get listed.
ListedAuthors ==
    {[user_id |-> <<"u">>, filename_variables |-> << <<"p">> >>],
     [user_id |-> <<"w">>, filename_variables |-> << <<"q">> >>]}

\* list_documents
ListDocuments(doc_type, sop_id, user_id, status, limit, filename_variables) ==
    /\ att.pc = "idle"
    /\ \E items \in list_documents(objs, doc_type, sop_id, MetadataClassOf(doc_type),
                                   user_id, status, limit, filename_variables) :
          res' = [op |-> "list", document_type |-> doc_type, sop_id |-> sop_id,
                  user_id |-> user_id, status |-> status, limit |-> limit,
                  filename_variables |-> filename_variables, items |-> items]
    /\ UNCHANGED <<reqs, gen, backend, document_type, config, objs, now, att>>

\* Saving, reading and deleting.
NextStore ==
    \/ \E doc_type \in {"drafts", "submissions"}, sop_id \in StoreSops,
          user_id \in StoreUsers, fv \in VarLists :
          ManagerSave(doc_type, sop_id, user_id, fv, FormDataPlain, <<>>, "a")
    \/ \E doc_type \in {"drafts", "submissions"}, sop_id \in AskedSops,
          file_basename \in Basenames(objs) :
          GetDocument(doc_type, sop_id, file_basename)
    \/ \E sop_id \in AskedSops, draft_id \in DraftIds(objs) : DeleteDraft(sop_id, draft_id)
    \/ Tick

SpecStore == Init /\ [][NextStore]_vars

\* The backends' save_document, for the documents that get listed.
ListedSave(doc_type) ==
    \E sop_id \in StoreSops, a \in ListedAuthors :
       SaveDocument(doc_type, sop_id, a.user_id, a.filename_variables, FormDataPlain, <<>>, "a")

\* Saving and listing.
NextList ==
    \/ ListedSave("drafts")
    \/ ListedSave("submissions")
    \/ \E doc_type \in {"drafts", "submissions"}, sop_id \in AskedSops,
          user_id \in UserFilters, status \in StatusFilters, limit \in Limits,
          filename_variables \in VariableFilters :
          ListDocuments(doc_type, sop_id, user_id, status, limit, filename_variables)
    \/ Tick

SpecList == Init /\ [][NextList]_vars

(***************************************************************************)
(* Properties of the document operations (SpecDocs).                       *)
(***************************************************************************)
\* A step of save_document: it alone leaves res.op = "save" with the clock
\* and the attach request untouched.
SaveStep == res'.op = "save" /\ now' = now /\ att' = att /\ <<objs, res>>' # <<objs, res>>

UpdateStep == res'.op = "update" /\ now' = now /\ <<objs, res>>' # <<objs, res>>

CleanupStep == res'.op = "cleanup" /\ now' = now /\ <<objs, res>>' # <<objs, res>>

\* C1: on any backend instance, a save with documentType=submissions whose
\* computed storage key already exists raises the immutability error and
\* leaves the stored objects, the document at that key among them, unchanged.
C1_FinalSaveAtExistingKeyRaises ==
    [][(/\ SaveStep
        /\ res'.document_type = "submissions"
        /\ Has(objs, StorageBucket(res'.key), res'.key))
       => (res'.err = "ImmutableStorageError" /\ objs' = objs)]_vars

\* C2: a draft keeps its draft_id across updates: after an existing draft is
\* saved again for the same SOP and user, the update answers with the same
\* draft_id, the document under that id holds the new content, and the store
\* holds no more documents than before.
C2_UpdateKeepsDraftId ==
    [][(/\ UpdateStep
        /\ get_document(objs, "drafts", res'.sop_id, res'.draft_id).err = "ok")
       => (/\ res'.err = "ok"
           /\ res'.return_id = res'.draft_id
           /\ get_document(objs', "drafts", res'.sop_id, res'.draft_id).err = "ok"
           /\ get_document(objs', "drafts", res'.sop_id, res'.draft_id).document.form_data
                 = res'.data
           /\ Cardinality(Docs(objs')) = Cardinality(Docs(objs)))]_vars

\* C3: on any backend instance, a save with documentType=drafts whose
\* computed key already holds a draft succeeds, and get at that key then
\* returns exactly the newly saved content.
C3_DraftSaveAtExistingKeySucceeds ==
    [][(/\ SaveStep
        /\ res'.document_type = "drafts"
        /\ Has(objs, StorageBucket(res'.key), res'.key))
       => (/\ res'.err = "ok"
           /\ get_document(objs', "drafts", res'.sop_id, res'.return_id).err = "ok"
           /\ get_document(objs', "drafts", res'.sop_id, res'.return_id).document.form_data
                 = res'.data)]_vars

\* The drafts of the SOP whose timestamp is older than t - retention_days.
ExpiredDrafts(S, sop_id, retention_days, t) ==
    {o \in Docs(S) : /\ o.body.status = "draft"
                     /\ o.body.sop_id = sop_id
                     /\ o.body.timestamp < t - retention_days}

\* C10: cleanup_old_drafts(sop_id, retention_days) deletes every draft of
\* that SOP whose timestamp is older than now minus retention_days, deletes
\* no other object, and returns the number of drafts it deleted.
C10_CleanupDeletesExpiredDrafts ==
    [][CleanupStep
       => LET expired == ExpiredDrafts(objs, res'.sop_id, res'.retention_days, now)
          IN /\ objs' = objs \ expired
             /\ res'.deleted = Cardinality(expired)]_vars

\* The document type of a stored document.
TypeOf(o) == IF o.body.status = "draft" THEN "drafts" ELSE "submissions"

\* C12: every backend operation on a key or prefix of document type T uses
\* the bucket configured for T, on both backends and whatever document type
\* the backend instance was constructed with; hence every document written
\* by put is found by head and by list for its type.
C12_OperationsUseTheBucketOfTheType ==
    /\ \A o \in Docs(objs) :
          LET T == TypeOf(o)
              prefix == <<T, "/">> \o o.body.sop_id \o <<"/">>
          IN /\ o.bucket = BucketOfType(T)
             /\ StorageBucket(o.key) = BucketOfType(T)
             /\ RetrievalBucket(o.key) = BucketOfType(T)
             /\ HeadBucket(o.key) = BucketOfType(T)
             /\ ListingBucket(prefix) = BucketOfType(T)
             /\ DeletionBucket(o.key) = BucketOfType(T)
             /\ head_ok(objs, o.key)
             /\ o.key \in perform_listing(objs, prefix)
    /\ \A sop_id \in DocSops :
          /\ CopySourceBucket(TempPrefix(sop_id)) = BucketOfType("drafts")
          /\ CopyDestBucket(FinalPrefix(sop_id)) = BucketOfType("submissions")
    /\ DraftFilesBucket = BucketOfType("drafts")
    /\ ValidationElnBucket = BucketOfType("submissions")
    /\ ValidationDraftBucket = BucketOfType("drafts")

\* C13: a successful save of a draft returns the filename without its
\* extension, and get(drafts, sop_id, id) then returns a document whose
\* form_data is the saved data and whose draft_id is that id; a successful
\* save of a final document returns the short id of its filename, which is
\* the eln_uuid of the document stored at its key.
C13_SaveReturnsTheId ==
    [][(SaveStep /\ res'.err = "ok")
       => LET filename == LastSegment(res'.key)
              got == get_document(objs', res'.document_type, res'.sop_id,
                                  Basename(filename))
          IN /\ got.err = "ok"
             /\ got.document.form_data = res'.data
             /\ IF res'.document_type = "drafts"
                THEN /\ res'.return_id \o <<".json">> = filename
                     /\ got = get_document(objs', "drafts", res'.sop_id, res'.return_id)
                     /\ got.document.draft_id = res'.return_id
                ELSE /\ Len(res'.return_id) = 1
                     /\ res'.return_id[1] \in ShortIds
                     /\ res'.return_id = parse_eln_filename(filename).uuid
                     /\ got.document.eln_uuid = res'.return_id]_vars

\* A draft saved beside another document, and a get of the id the save
\* returned.
C13_Witness ==
    /\ res.op = "save"
    /\ res.err = "ok"
    /\ res.document_type = "drafts"
    /\ res.data = FormDataOther
    /\ Cardinality(Docs(objs)) >= 2
    /\ get_document(objs, "drafts", res.sop_id, res.return_id).err = "ok"

(***************************************************************************)
(* Properties of the attachment workflow (SpecFiles).                      *)
(***************************************************************************)
\* The final documents with the eln_uuid of the request, in the objects S.
Parents(S) ==
    {o \in Docs(S) : /\ o.body.status = "final"
                     /\ o.body.sop_id = att.sop_id
                     /\ o.body.eln_uuid = att.eln_uuid}

\* The temp objects of the i-th file id of the request, in the objects S.
TempObjects(S, i) ==
    {o \in S : /\ o.bucket = config.draft_bucket_name
               /\ StartsWith(o.key, TempKeyPrefix(att.sop_id, att.user_id, att.field_id,
                                                  att.file_ids[i]))}

\* The objects at final keys of the i-th file id of the request.
FinalObjects(S, i) ==
    {o \in S : /\ o.bucket = config.eln_bucket_name
               /\ StartsWith(o.key, FinalPrefix(att.sop_id)
                                    \o NamePrefix(att.user_id, unescape_field_id(att.field_id),
                                                  att.file_ids[i]))}

\* C4: when attach returns successfully for a non-empty batch, the parent
\* final document at its existing key has form_data[fieldId].files equal to
\* the {finalPath, originalName, fileId} entries of the moved files in
\* request order, has no uploadedUrls key, and was written exactly once.
C4_SuccessfulAttachPatchesParent ==
    (att.pc = "done" /\ Parents(att.pre) # {})
    => /\ att.writes = 1
       /\ \A o \in Parents(att.pre) :
             LET fid == unescape_field_id(att.field_id)
                 doc == BodyAt(objs, o.bucket, o.key)
             IN /\ Has(objs, o.bucket, o.key)
                /\ fid \in DOMAIN doc.form_data
                /\ "uploadedUrls" \notin DOMAIN doc.form_data[fid]
                /\ Len(doc.form_data[fid].files) = Len(att.file_ids)
                /\ \A i \in 1..Len(att.file_ids) :
                      /\ doc.form_data[fid].files[i].fileId = att.file_ids[i]
                      /\ doc.form_data[fid].files[i].finalPath = att.final_urls[i]
                      /\ doc.form_data[fid].files[i].originalName \in OriginalNames

\* C5: if locating, copying or deleting the k-th file of a batch fails,
\* attach raises; the files before k are at their final keys with their temp
\* keys deleted, the k-th and later files are still at their temp keys, and
\* the patch stage has not run: the documents are unchanged.
C5_FailureMidBatchRaises ==
    /\ (att.pc \in {"patch_load", "patch_store", "done"} => att.delete_errors = {})
    /\ (att.pc = "failed" /\ att.failed \in {"locate", "copy", "delete"})
       => /\ \A i \in 1..(att.idx - 1) :
                /\ TempObjects(objs, i) = {}
                /\ FinalObjects(objs, i) # {}
          /\ \A i \in att.idx..Len(att.file_ids) :
                TempObjects(objs, i) = TempObjects(att.pre, i)
          /\ att.writes = 0
          /\ Docs(objs) = Docs(att.pre)

\* C6: after a successful attach of file ids f1..fn, for each fi an object
\* exists at submissions/{sopId}/attachments/{userId}-{fieldId}-{fi}-{name}
\* with the unescaped field id, holding the content of the temp file; the
\* temp key of fi no longer exists; the returned list holds these final keys
\* in request order.
C6_SuccessfulAttachMovesEveryFile ==
    att.pc = "done"
    => /\ Len(att.final_urls) = Len(att.file_ids)
       /\ \A i \in 1..Len(att.file_ids) :
             /\ \E t \in TempObjects(att.pre, i) :
                   LET name == SubSeq(t.key, Len(TempKeyPrefix(att.sop_id, att.user_id,
                                         att.field_id, att.file_ids[i])) + 1, Len(t.key))
                       final_key == FinalPrefix(att.sop_id)
                                    \o NamePrefix(att.user_id, unescape_field_id(att.field_id),
                                                  att.file_ids[i])
                                    \o name
                   IN /\ att.final_urls[i] = final_key
                      /\ Has(objs, config.eln_bucket_name, final_key)
                      /\ BodyAt(objs, config.eln_bucket_name, final_key) = t.body
             /\ TempObjects(objs, i) = {}

\* The validation ran its temp-file check to the end.
TempChecked ==
    /\ att.pc = "validated"
    /\ att.validation.errors \in {<<>>, <<"files_not_found">>}

\* The positions of the request whose id is not reported missing.
Accepted == {i \in 1..Len(att.file_ids) :
                \A j \in 1..Len(att.validation.missing_files) :
                    att.validation.missing_files[j] # att.file_ids[i]}

\* C7: validate reports a requested file id as found only if a temp object
\* named {userId}-{escapedFieldId}-{fileId}-* exists under the draft
\* attachments of that SOP, so a file of another user or field never
\* satisfies it; hence the move stage locates every id of a validated request.
C7_ValidateMatchesThePattern ==
    /\ TempChecked => \A i \in Accepted : TempObjects(objs, i) # {}
    /\ (att.pc = "failed" /\ att.validated /\ att.failed = "locate")
       => att.fault = "locate"

\* The ids of the request, in order, that have no temp file.
RECURSIVE Unresolved(_)
Unresolved(i) ==
    IF i > Len(att.file_ids) THEN <<>>
    ELSE (IF TempObjects(objs, i) = {} THEN <<att.file_ids[i]>> ELSE <<>>)
         \o Unresolved(i + 1)

C8_State ==
    (TempChecked /\ Unresolved(1) # <<>>)
    => /\ ~att.validation.valid
       /\ att.validation.errors = <<"files_not_found">>
       /\ att.validation.missing_files = Unresolved(1)

\* C8: when at least one requested file id has no temp file, validate
\* answers valid = false with errors exactly [files_not_found] and exactly
\* the unresolved ids as missing; a validate call changes no stored object.
C8_MissingFilesReportedExactly ==
    [][(att.pc = "idle" /\ att'.pc = "validated") => (objs' = objs /\ C8_State')]_vars

\* The order of the checks of a validation.
CheckOrder == <<"sop", "eln", "load", "field", "temp">>

\* Whether a check fails for the validated request held in att.
CheckFails(check) ==
    LET loaded == load_eln_for_validation(objs, att.eln_key, att.fault) IN
    CASE check = "sop" -> att.fault = "sop" \/ ~validate_sop_exists(att.sop_id)
      [] check = "eln" ->
            att.fault = "eln" \/ ~validate_eln_exists(objs, att.sop_id, att.eln_uuid)
      [] check = "load" -> loaded.err # "ok"
      [] check = "field" ->
            loaded.err # "ok" \/ ~validate_field_exists_in_eln(loaded.document, att.field_id)
      [] check = "temp" ->
            \/ att.fault = "temp"
            \/ validate_temp_files_exist(objs, att.sop_id, att.file_ids, att.user_id,
                                         att.field_id) # <<>>

\* The error codes a failing check reports.
ErrorCodes(check) ==
    CASE check = "sop" -> {"sop_not_found", "validation_error"}
      [] check = "eln" -> {"eln_not_found", "validation_error"}
      [] check = "load" -> {"eln_load_failed", "eln_corrupted"}
      [] check = "field" -> {"field_not_found"}
      [] check = "temp" -> {"files_not_found", "validation_error"}

\* C9: validate runs its checks in the order SOP exists, final document
\* exists, final document loads, field is referenced, temp files exist, and
\* stops at the first failing check: every check made before the last one
\* passed, an invalid result carries exactly one error code, that of the last
\* check made, which failed, and a valid result made all five checks.
C9_ChecksInOrderStopAtFirstFailure ==
    att.pc = "validated"
    => LET v == att.validation
           n == Len(v.checks)
       IN /\ n \in 1..Len(CheckOrder)
          /\ v.checks = SubSeq(CheckOrder, 1, n)
          /\ \A i \in 1..(n - 1) : ~CheckFails(CheckOrder[i])
          /\ IF v.valid
             THEN n = Len(CheckOrder) /\ ~CheckFails(CheckOrder[n]) /\ v.errors = <<>>
             ELSE /\ Len(v.errors) = 1
                  /\ CheckFails(CheckOrder[n])
                  /\ v.errors[1] \in ErrorCodes(CheckOrder[n])

\* A validation that stopped at the field check although the temp files of
\* the request are missing as well.
C9_Witness ==
    /\ att.pc = "validated"
    /\ att.validation.errors = <<"field_not_found">>
    /\ att.validation.checks = <<"sop", "eln", "load", "field">>
    /\ CheckFails("temp")

(***************************************************************************)
(* Properties of the document store under its callers (SpecStore).         *)
(***************************************************************************)
ManagerSaveStep ==
    res'.op = "manager_save" /\ now' = now /\ <<objs, res>>' # <<objs, res>>

\* The drafts of the SOP and user that are stored in S.
UserDrafts(S, sop_id, user_id) ==
    {o \in Docs(S) : /\ o.bucket = config.draft_bucket_name
                     /\ o.body.status = "draft"
                     /\ o.body.sop_id = sop_id
                     /\ o.body.user_id = user_id}

\* The newest of the documents D.
Newest(D) == {o \in D : \A o2 \in D : o2.body.timestamp <= o.body.timestamp}

\* The stored final documents.
Finals(S) == {o \in Docs(S) : o.body.status = "final"}

\* C11: a final document saved through StorageManager.save_document carries
\* the draft_uuid and draft_id of a newest draft of the same SOP and user
\* stored at that moment, and the empty string for both when there is none;
\* a later save or deletion of a draft leaves every final document as it is.
C11_FinalCarriesNewestDraft ==
    [][/\ (ManagerSaveStep /\ res'.document_type = "submissions" /\ res'.err = "ok")
          => LET doc == BodyAt(objs', config.eln_bucket_name, res'.key)
                 D == UserDrafts(objs, res'.sop_id, res'.user_id)
             IN /\ Has(objs', config.eln_bucket_name, res'.key)
                /\ IF D = {}
                   THEN doc.draft_uuid = <<>> /\ doc.draft_id = <<>>
                   ELSE \E o \in Newest(D) : /\ doc.draft_uuid = o.body.draft_uuid
                                             /\ doc.draft_id = o.body.draft_id
       /\ ((ManagerSaveStep /\ res'.document_type = "drafts") \/ res'.op = "delete")
          => Finals(objs) \subseteq objs']_vars

\* A final document that refers to the newer of the two drafts its user has
\* stored at submission time.
C11_Witness ==
    /\ res.op = "manager_save"
    /\ res.document_type = "submissions"
    /\ res.err = "ok"
    /\ \E f \in Finals(objs), d1, d2 \in UserDrafts(objs, res.sop_id, res.user_id) :
          /\ f.key = res.key
          /\ d1.body.timestamp < d2.body.timestamp
          /\ f.body.draft_id = d2.body.draft_id
          /\ f.body.draft_uuid = d2.body.draft_uuid

\* C14: get(document_type, sop_id, basename) returns None, and raises
\* nothing, whenever no document is stored at the key, also after the
\* document was deleted, and returns the stored document when there is one.
C14_GetReturnsNoneWhenAbsent ==
    res.op = "get"
    => LET key == get_document_key(res.sop_id, res.file_basename \o <<".json">>,
                                   res.document_type)
           bucket == BucketOfType(res.document_type)
       IN IF Has(objs, bucket, key)
          THEN res.out.err = "ok" /\ res.out.document = BodyAt(objs, bucket, key)
          ELSE res.out.err = "None"

\* A get of an id that was issued, whose draft is no longer stored: the
\* draft was deleted.
C14_Witness ==
    /\ res.op = "get"
    /\ res.document_type = "drafts"
    /\ res.sop_id \in StoreSops
    /\ res.file_basename # <<"draft", "-", "x">>
    /\ res.file_basename \notin {Basename(o.body.filename) : o \in Docs(objs)}
    /\ res.out.err = "None"

DeleteStep == res'.op = "delete" /\ now' = now /\ <<objs, res>>' # <<objs, res>>

\* C15: delete(drafts, sop_id, id) returns true and removes the draft when
\* it is stored, after which get returns None and list omits it, and returns
\* false and changes nothing when it is not stored; the answer depends on
\* the stored documents alone, so both backends give the same one.
C15_DeleteReportsWhatItRemoved ==
    [][DeleteStep
       => LET key == get_document_key(res'.sop_id, res'.draft_id \o <<".json">>, "drafts")
              bucket == BucketOfType("drafts")
          IN IF Has(objs, bucket, key)
             THEN /\ res'.ret = "True"
                  /\ objs' = Remove(objs, bucket, key)
                  /\ get_document(objs', "drafts", res'.sop_id, res'.draft_id).err = "None"
                  /\ key \notin listed_keys(objs', "drafts", res'.sop_id, "DraftMetadata",
                                            {}, {}, {})
             ELSE /\ res'.ret = "False"
                  /\ objs' = objs]_vars

(***************************************************************************)
(* Properties of list_documents (SpecList)                                 *)
(***************************************************************************)
\* The documents the filters of a finished list call select from the store.
Selected ==
    listed_keys(objs, res.document_type, res.sop_id, MetadataClassOf(res.document_type),
                res.user_id, res.status, res.filename_variables)

InstantOf(k) ==
    safe_timestamp_key(from_dict(MetadataClassOf(res.document_type),
                                 BodyAt(objs, RetrievalBucket(k), k))).instant

Min(a, b) == IF a < b THEN a ELSE b

\* C16: list returns metadata ordered by timestamp, newest first, and when
\* a limit is given it returns at most limit items, namely the newest ones:
\* no selected document left out is newer than a returned one.
C16_ListIsNewestFirstAndLimited ==
    res.op = "list"
    => LET items == res.items
           n == Len(items)
       IN /\ \A i, j \in 1..n :
                i < j => safe_timestamp_key(items[i]).instant
                            >= safe_timestamp_key(items[j]).instant
          /\ IF Given(res.limit)
             THEN /\ n = Min(Val(res.limit), Cardinality(Selected))
                  /\ \E R \in SUBSET Selected :
                        /\ Cardinality(R) = n
                        /\ \A i \in 1..n : \E k \in R : InstantOf(k) = items[i].timestamp.instant
                        /\ \A k \in Selected \ R : \A r \in R : InstantOf(k) <= InstantOf(r)
             ELSE n = Cardinality(Selected)

\* The stored documents of the listed type and SOP that pass the filters
\* of a finished list call, an absent filter passing everything.
Matching ==
    {o \in objs :
       /\ o.body.kind = "doc"
       /\ o.bucket = BucketOfType(res.document_type)
       /\ o.key = get_document_key(res.sop_id, o.body.filename, res.document_type)
       /\ o.body.sop_id = res.sop_id
       /\ (Given(res.user_id) => o.body.user_id = Val(res.user_id))
       /\ (Given(res.status) => o.body.status = Val(res.status))
       /\ (Given(res.filename_variables)
             => LET parsed == parse_eln_filename(o.body.filename)
                    wanted == Val(res.filename_variables)
                IN /\ Len(wanted) <= Len(parsed.variables)
                   /\ \A i \in 1..Len(wanted) : parsed.variables[i] = wanted[i])}

\* The key of the document a returned item describes.
ItemKey(item) ==
    IF res.document_type = "drafts"
    THEN get_document_key(item.sop_id, item.draft_id \o <<".json">>, "drafts")
    ELSE get_document_key(item.sop_id, item.filename, "submissions")

\* C17: list(documentType, sopId, filters) returns exactly the documents
\* stored under that document type and SOP that pass the user, status and
\* filename variable filters, and no document of another SOP or type (a
\* limit may cut the result short).
C17_ListReturnsExactlyTheMatches ==
    res.op = "list"
    => LET returned == {ItemKey(res.items[i]) : i \in 1..Len(res.items)}
           stored == {o.key : o \in Matching}
       IN /\ returned \subseteq stored
          /\ ~Given(res.limit) => returned = stored

(***************************************************************************)
(* FilenameGenerator on its own: a call of generate_filename with an       *)
(* existing_checker, one step per iteration of the loop in                 *)
(* _generate_8char_uuid, followed by parse_eln_filename of the result.     *)
(***************************************************************************)
\* max_uuid_retries of FilenameGenerator()
DefaultMaxRetries == 10

MaxVars == 2

NameStatuses == {"draft", "final"}

Usernames == {<<"P">>, <<"-">>, <<>>}

NameVariables == {<<"p">>, <<>>, <<" ">>, <<"-">>}

NameVariableLists == UNION {[1..n -> NameVariables] : n \in 0..MaxVars}

FieldIdLists == {<<>>, << <<"n">> >>, << <<"-">> >>}

RetryCounts == {1, 2, DefaultMaxRetries}

\* The existing_checker arguments: None ({}) or a predicate, given by the
\* short ids whose filename it reports as existing.
Checkers == {{}} \cup {{C} : C \in SUBSET ShortIds}

\* for attempt in range(self.max_uuid_retries), with one attempt too many
range_inclusive(n, attempt) == attempt <= n

\* for attempt in range(self.max_uuid_retries): there is a further attempt
range_has(n, attempt) == attempt < n

\* The filename generate_filename builds around a short id for the call g.
FilenameOf(g, short_uuid) ==
    generate_filename(g.status, g.username, g.filename_variables, g.field_ids, g.t, short_uuid)

\* collision_checker of _generate_unique_uuid
collision_checker(g, short_uuid) ==
    /\ Given(g.existing_checker)
    /\ FilenameOf(g, short_uuid) \in Val(g.existing_checker)

\* The calls of generate_filename. The default retry count is taken with
\* one choice of names, the short counts with all of them.
NameCalls ==
    {g \in
       {LET g0 == [pc |-> "loop", status |-> status, username |-> username,
                   filename_variables |-> fv, field_ids |-> field_ids, t |-> 0,
                   max_uuid_retries |-> n, existing_checker |-> {},
                   attempt |-> 0, drawn |-> <<>>, short_uuid |-> "",
                   filename |-> <<>>, parsed |-> [valid |-> FALSE]]
        IN [g0 EXCEPT !.existing_checker =
              IF chk = {} THEN {} ELSE {{FilenameOf(g0, c) : c \in Val(chk)}}] :
          status \in NameStatuses, username \in Usernames, fv \in NameVariableLists,
          field_ids \in FieldIdLists, n \in RetryCounts, chk \in Checkers} :
       g.max_uuid_retries = DefaultMaxRetries
          => g.username = <<"P">> /\ g.filename_variables = <<>> /\ g.field_ids = <<>>}

InitNames ==
    /\ backend = "local"
    /\ document_type = "drafts"
    /\ config \in Configs
    /\ objs = {}
    /\ now = 0
    /\ att = Idle
    /\ res = [op |-> "none"]
    /\ gen \in NameCalls
    /\ reqs = NoRequests

\* One iteration of the loop of _generate_8char_uuid drawing short_uuid;
\* without a collision generate_filename returns the filename around it.
GenerateUuidAttempt(short_uuid) ==
    /\ gen.pc = "loop"
    /\ range_has(gen.max_uuid_retries, gen.attempt)
    /\ IF ~collision_checker(gen, short_uuid)
       THEN gen' = [gen EXCEPT !.pc = "returned", !.short_uuid = short_uuid,
                               !.filename = FilenameOf(gen, short_uuid)]
       ELSE gen' = [gen EXCEPT !.attempt = @ + 1, !.drawn = Append(@, short_uuid)]
    /\ UNCHANGED <<reqs, backend, document_type, config, objs, now, att, res>>

\* The loop of _generate_8char_uuid ends: raise UUIDCollisionError
RaiseUUIDCollisionError ==
    /\ gen.pc = "loop"
    /\ ~range_has(gen.max_uuid_retries, gen.attempt)
    /\ gen' = [gen EXCEPT !.pc = "UUIDCollisionError"]
    /\ UNCHANGED <<reqs, backend, document_type, config, objs, now, att, res>>

\* parse_eln_filename of the generated filename
ParseGenerated ==
    /\ gen.pc = "returned"
    /\ gen' = [gen EXCEPT !.pc = "parsed", !.parsed = parse_eln_filename(gen.filename)]
    /\ UNCHANGED <<reqs, backend, document_type, config, objs, now, att, res>>

NextNames ==
    \/ \E short_uuid \in ShortIds : GenerateUuidAttempt(short_uuid)
    \/ RaiseUUIDCollisionError
    \/ ParseGenerated

SpecNames == InitNames /\ [][NextNames]_vars

(***************************************************************************)
(* Properties of FilenameGenerator (SpecNames)                             *)
(***************************************************************************)
Returned == gen.pc \in {"returned", "parsed"}

\* C18: with an existence predicate, the returned short id is the first
\* drawn candidate without a collision (every earlier draw collided), and
\* when every candidate collides UUIDCollisionError is raised after exactly
\* max_uuid_retries attempts and nothing is returned.
C18_FirstFreeCandidateOrRaise ==
    gen.pc # "none" /\ Given(gen.existing_checker)
    => /\ \A i \in 1..Len(gen.drawn) : collision_checker(gen, gen.drawn[i])
       /\ Returned => /\ ~collision_checker(gen, gen.short_uuid)
                      /\ Len(gen.drawn) < gen.max_uuid_retries
       /\ gen.pc = "UUIDCollisionError"
             => /\ Len(gen.drawn) = gen.max_uuid_retries
                /\ gen.short_uuid = "" /\ gen.filename = <<>>
       /\ (\A c \in ShortIds : collision_checker(gen, c)) => ~Returned
       /\ gen.pc = "loop" => Len(gen.drawn) <= gen.max_uuid_retries

\* UUIDCollisionError after ten colliding draws under the default count.
C18_Witness ==
    /\ gen.pc = "UUIDCollisionError"
    /\ Given(gen.existing_checker)
    /\ gen.max_uuid_retries = DefaultMaxRetries
    /\ Len(gen.drawn) = DefaultMaxRetries

\* C19: parse_eln_filename of a generated filename returns the status, the
\* normalized username, the variable components in order, the timestamp
\* and the short id that generate_filename put into it.
C19_ParseRecoversTheComponents ==
    gen.pc = "parsed"
    => /\ gen.parsed.valid
       /\ gen.parsed.status = <<gen.status>>
       /\ gen.parsed.username = normalize_filename_value(gen.username)
       /\ gen.parsed.variables = FilenameVars(gen.filename_variables, gen.field_ids, 1)
       /\ gen.parsed.timestamp = <<TsSym(gen.t)>>
       /\ gen.parsed.uuid = <<gen.short_uuid>>

\* A filename of user P with the variables p and "-" parsed back into the
\* components p and the empty string.
C19_Witness ==
    /\ gen.pc = "parsed"
    /\ gen.username = <<"P">>
    /\ gen.filename_variables = << <<"p">>, <<"-">> >>
    /\ gen.parsed.username = <<"p">>
    /\ gen.parsed.variables = << <<"p">>, <<>> >>

\* The literal empty in place of a value that normalizes to nothing.
OrEmpty(value) == IF value = <<>> THEN <<"empty">> ELSE value

\* The component the i-th variable is to give: its normalized value when
\* it is not blank, else the normalized fallback id of its index, else empty.
ExpectedComponent(i) ==
    LET var == gen.filename_variables[i] IN
    IF Strip(var, Whitespace) # <<>>
    THEN OrEmpty(normalize_filename_value(var))
    ELSE IF i <= Len(gen.field_ids)
    THEN OrEmpty(normalize_filename_value(gen.field_ids[i]))
    ELSE <<"empty">>

\* C20: a generated filename has one component per positional variable, in
\* order, each the normalized value, else the normalized fallback id, else
\* the literal empty; the username is normalized likewise, and no
\* component is the empty string.
C20_OneNonEmptyComponentPerVariable ==
    Returned
    => LET parts == SplitAll(SubSeq(gen.filename, 1, Len(gen.filename) - 1), "-")
           n == Len(gen.filename_variables)
       IN /\ Len(parts) = n + 4
          /\ \A p \in 1..Len(parts) : parts[p] # <<>>
          /\ parts[2] = OrEmpty(normalize_filename_value(gen.username))
          /\ \A i \in 1..n : parts[2 + i] = ExpectedComponent(i)

(***************************************************************************)
(* escape_field_id and unescape_field_id on their own: a field id is       *)
(* escaped and the result unescaped.                                       *)
(***************************************************************************)
MaxIdLen == 3

\* The symbols of a field id; an id may hold the text __HYPHEN__ itself.
FieldIdSymbols == {"f", "g", "_", "-", "__HYPHEN__"}

FieldIdInputs == UNION {[1..n -> FieldIdSymbols] : n \in 1..MaxIdLen}

InitEscape ==
    /\ backend = "local"
    /\ document_type = "drafts"
    /\ config \in Configs
    /\ objs = {}
    /\ now = 0
    /\ att = Idle
    /\ res = [op |-> "none"]
    /\ gen \in {[pc |-> "field_id", field_id |-> id, escaped |-> <<>>, unescaped |-> <<>>] :
                  id \in FieldIdInputs}
    /\ reqs = NoRequests

\* escaped = escape_field_id(field_id)
EscapeFieldId ==
    /\ gen.pc = "field_id"
    /\ gen' = [gen EXCEPT !.pc = "escaped", !.escaped = escape_field_id(gen.field_id)]
    /\ UNCHANGED <<reqs, backend, document_type, config, objs, now, att, res>>

\* unescaped = unescape_field_id(escaped)
UnescapeFieldId ==
    /\ gen.pc = "escaped"
    /\ gen' = [gen EXCEPT !.pc = "unescaped", !.unescaped = unescape_field_id(gen.escaped)]
    /\ UNCHANGED <<reqs, backend, document_type, config, objs, now, att, res>>

NextEscape == EscapeFieldId \/ UnescapeFieldId

SpecEscape == InitEscape /\ [][NextEscape]_vars

(***************************************************************************)
(* Properties of the field id escaping (SpecEscape)                        *)
(***************************************************************************)
\* C21: for any field id containing hyphens, unescaping the escaped id
\* gives the id back.
C21_UnescapeInvertsEscape ==
    (gen.pc = "unescaped" /\ \E i \in 1..Len(gen.field_id) : gen.field_id[i] = "-")
    => gen.unescaped = gen.field_id

(***************************************************************************)
(* Properties of the stored checksum (SpecDocs)                            *)
(***************************************************************************)
UnderType(o, doc_type) == StartsWith(o.key, <<doc_type, "/">>)

\* C22: every document stored by save under submissions has a non-empty
\* checksum, and every document stored by save under drafts has no
\* checksum or an empty one.
C22_FinalsHaveAChecksumDraftsNone ==
    \A o \in Docs(objs) :
       /\ UnderType(o, "submissions")
             => "checksum" \in DOMAIN o.body /\ o.body.checksum # <<>>
       /\ UnderType(o, "drafts")
             => "checksum" \notin DOMAIN o.body \/ o.body.checksum = <<>>

\* A final document and a draft are stored side by side.
C22_Witness ==
    /\ \E o \in Docs(objs) : UnderType(o, "submissions") /\ o.body.checksum # <<>>
    /\ \E o \in Docs(objs) : UnderType(o, "drafts") /\ "checksum" \notin DOMAIN o.body

(***************************************************************************)
(* The backends under a configuration that leaves bucket names out,        *)
(* outside test mode: save_document, get_document, delete_draft and        *)
(* validate_attach_files_request.                                          *)
(***************************************************************************)
\* StorageConfig with any of the three bucket names left unset (None).
PartialConfigs ==
    {[draft_bucket_name |-> d, eln_bucket_name |-> e, forms_bucket_name |-> f,
      is_testing |-> FALSE] :
        d \in {"eln-drafts", "None"}, e \in {"eln", "None"}, f \in {"forms", "None"}}

InitConfig ==
    /\ backend \in {"local", "s3"}
    /\ document_type \in {"drafts", "submissions"}
    /\ config \in PartialConfigs
    /\ objs = {}
    /\ now = 0
    /\ att = Idle
    /\ res = [op |-> "none"]
    /\ gen = NoCall
    /\ reqs = NoRequests

NextConfig ==
    \/ \E doc_type \in {"drafts", "submissions"}, short_uuid \in ShortIds :
          SaveDocument(doc_type, <<"S1">>, <<"u">>, << <<"p">> >>, FormDataFiles, <<>>,
                       short_uuid)
    \/ \E doc_type \in {"drafts", "submissions"}, sop_id \in DocSops,
          file_basename \in Basenames(objs) :
          GetDocument(doc_type, sop_id, file_basename)
    \/ \E sop_id \in DocSops, draft_id \in DraftIds(objs) : DeleteDraft(sop_id, draft_id)
    \/ \E eln_uuid \in ElnUuids, field_id \in AttachFields, file_ids \in FileIdLists,
          user_id \in AttachUsers, sop_id \in DocSops :
          ValidateAttach(eln_uuid, field_id, file_ids, user_id, sop_id, "none")
    \/ ValidateReturn

SpecConfig == InitConfig /\ [][NextConfig]_vars

(***************************************************************************)
(* Properties of the bucket configuration (SpecConfig)                     *)
(***************************************************************************)
Unconfigured(doc_type) ==
    CASE doc_type = "drafts" -> config.draft_bucket_name = "None"
      [] doc_type = "submissions" -> config.eln_bucket_name = "None"
      [] doc_type = "sops" -> config.forms_bucket_name = "None"

Made(checks, check) == \E i \in 1..Len(checks) : checks[i] = check

\* C23: outside test mode an operation that needs the bucket of a document
\* type without a configured bucket name fails with a configuration error
\* (StorageError, reported by the validation as validation_error at the
\* check that needs the bucket) and stores nothing; none goes on with a
\* built-in bucket name.
C23_UnconfiguredBucketIsAnError ==
    [][~config.is_testing
       => /\ (/\ res'.op = "save"
              /\ <<res, objs>>' # <<res, objs>>
              /\ Unconfigured(res'.document_type))
                => res'.err = "StorageError" /\ objs' = objs
          /\ (/\ res'.op = "get"
              /\ res' # res
              /\ Unconfigured(res'.document_type))
                => res'.out.err = "StorageError" /\ objs' = objs
          /\ (/\ res'.op = "delete"
              /\ <<res, objs>>' # <<res, objs>>
              /\ Unconfigured("drafts"))
                => res'.ret = "StorageError" /\ objs' = objs
          /\ (att.pc = "idle" /\ att'.pc = "validated")
                => LET v == att'.validation IN
                   /\ objs' = objs
                   /\ Unconfigured("sops")
                         => v.errors = <<"validation_error">> /\ v.checks = <<"sop">>
                   /\ (Made(v.checks, "eln") /\ Unconfigured("submissions"))
                         => v.errors = <<"validation_error">> /\ v.checks = <<"sop", "eln">>
                   /\ (Made(v.checks, "temp") /\ Unconfigured("drafts"))
                         => v.errors = <<"validation_error">>]_vars

(***************************************************************************)
(* Properties of the patch stage (SpecFiles)                               *)
(***************************************************************************)
\* The write of the patch stage.
PatchStoreStep == att.pc = "patch_store" /\ att'.pc = "done"

PatchedKeys == {"files", "uploadedUrls"}

\* C26: the patch stage changes nothing in the parent document except the
\* files array and the uploadedUrls key of form_data[field_id]; every other
\* form_data field and every envelope field stays as stored, and no other
\* object is written.
C26_PatchTouchesOnlyTheFileField ==
    [][PatchStoreStep
       => \E o \in Docs(objs) :
             /\ o.key = att.eln_key
             /\ Has(objs', o.bucket, o.key)
             /\ {x \in objs' : x.key # o.key} = {x \in objs : x.key # o.key}
             /\ LET old == o.body
                    new == BodyAt(objs', o.bucket, o.key)
                    f == unescape_field_id(att.field_id)
                IN /\ DOMAIN new = DOMAIN old
                   /\ \A k \in DOMAIN old \ {"form_data"} : new[k] = old[k]
                   /\ DOMAIN new.form_data = DOMAIN old.form_data
                   /\ \A g \in DOMAIN old.form_data \ {f} : new.form_data[g] = old.form_data[g]
                   /\ DOMAIN new.form_data[f] \ PatchedKeys
                         = DOMAIN old.form_data[f] \ PatchedKeys
                   /\ \A k \in DOMAIN old.form_data[f] \ PatchedKeys :
                         new.form_data[f][k] = old.form_data[f][k]]_vars

\* An attach has written its patch: the parent names the moved file in the
\* files array of the field and still holds its other fields.
C26_Witness ==
    /\ att.pc = "done"
    /\ att.writes = 1
    /\ \E o \in Docs(objs) :
          /\ o.key = att.eln_key
          /\ o.body.form_data[unescape_field_id(att.field_id)].files = att.file_info_list
          /\ att.file_info_list # <<>>
          /\ o.body.form_data[<<"n">>] = [value |-> "v1"]

\* C27: the checksum of every stored final document is the content hash
\* of the form_data the document currently holds, also after an attach
\* batch has patched it.
C27_ChecksumMatchesFormData ==
    \A o \in Docs(objs) :
       UnderType(o, "submissions")
          => o.body.checksum = calculate_checksum(o.body.form_data)

\* C29: the validation look-ups and the patch stage take for the parent
\* only the final document whose eln_uuid is the requested one: the
\* validation goes past its ELN check only when that document is stored,
\* loads that document and no other object, and the patch stage patches
\* that document.
C29_OnlyTheRequestedDocumentIsTheParent ==
    /\ (att.pc = "validated" /\ Made(att.validation.checks, "load"))
          => /\ Parents(objs) # {}
             /\ att.eln_key \in {o.key : o \in Parents(objs)}
    /\ att.pc = "patch_store"
          => /\ "eln_uuid" \in DOMAIN att.eln_doc
             /\ att.eln_doc.eln_uuid = att.eln_uuid


(***************************************************************************)
(* Uploads of .json files next to the documents: FileValidator allows the  *)
(* extension .json, store_temp_file writes the bytes under                 *)
(* drafts/{sop_id}/attachments/, attach_files_to_eln copies them under     *)
(* submissions/{sop_id}/attachments/, and the listings keep every key      *)
(* under the prefix that ends with .json.                                  *)
(***************************************************************************)
\* Original names with the allowed extension .json.
JsonNames == {<<"x", ".json">>}

\* The content of an uploaded .json file: the JSON text of a draft and of a
\* final document that save_document never wrote.
JsonContents ==
    {prepare_document(<<"z">>, <<"draft", "-", "m", "-", "T0", "-", "z", ".json">>,
                      <<"S1">>, <<"m">>, "draft", 0, FormDataPlain, TRUE, <<>>, <<>>,
                      <<>>, <<>>),
     prepare_document(<<"z">>, <<"final", "-", "m", "-", "T0", "-", "z", ".json">>,
                      <<"S1">>, <<"m">>, "final", 0, FormDataPlain, FALSE, <<>>,
                      calculate_checksum(FormDataPlain), <<>>, <<>>)}

\* store_temp_file of a file whose bytes are the JSON text of a document:
\* _retrieve_document of the key gives that document.
store_temp_json(S, file_id, document, filename, user_id, field_id, sop_id) ==
    LET bucket == IF backend = "local" THEN BucketOfKey(<<"drafts", "/">>)
                  ELSE DraftFilesBucket
        key == TempPrefix(sop_id) \o TempFilename(user_id, field_id, file_id, filename)
    IN IF bucket = NoBucket THEN [objs |-> S, err |-> "StorageError", key |-> key]
       ELSE [objs |-> Put(S, bucket, key, document), err |-> "ok", key |-> key]

StoreTempJson(file_id, document, filename, user_id, field_id, sop_id) ==
    /\ att.pc = "idle"
    /\ Cardinality(objs) < MaxObjects
    /\ LET out == store_temp_json(objs, file_id, document, filename, user_id, field_id, sop_id)
       IN /\ objs' = out.objs
          /\ res' = [op |-> "store_temp", key |-> out.key, err |-> out.err]
    /\ UNCHANGED <<reqs, gen, backend, document_type, config, now, att>>

\* get_eln_by_uuid: the results it can return, the first document of the
\* listing of submissions/ whose eln_uuid is the one asked for. A key that
\* cannot be retrieved or converted is logged and skipped.
get_eln_by_uuid(S, eln_uuid) ==
    LET found == {k \in perform_listing(S, <<"submissions", "/">>) :
                    /\ RetrievalBucket(k) # NoBucket
                    /\ Has(S, RetrievalBucket(k), k)
                    /\ LET document == BodyAt(S, RetrievalBucket(k), k) IN
                       /\ document.kind = "doc"
                       /\ "eln_uuid" \in DOMAIN document
                       /\ document.eln_uuid = eln_uuid}
    IN IF found = {} THEN {[err |-> "StorageNotFoundError"]}
       ELSE {[err |-> "ok", key |-> k,
              document |-> BodyAt(S, RetrievalBucket(k), k),
              metadata |-> from_dict("ELNMetadata", BodyAt(S, RetrievalBucket(k), k))] :
                k \in Firsts(found)}

GetElnByUuid(eln_uuid) ==
    /\ att.pc = "idle"
    /\ \E out \in get_eln_by_uuid(objs, eln_uuid) :
          res' = [op |-> "get_by_uuid", eln_uuid |-> eln_uuid, out |-> out]
    /\ UNCHANGED <<reqs, gen, backend, document_type, config, objs, now, att>>

\* The field filters of a prerequisite query: none, and one on the field n.
FieldFilters == {<<>>, (<<"n">> :> [value |-> "v1"])}

\* query_prerequisite_elns: the results it can return. get_document gives
\* None for a listed item whose filename is not a key of the SOP, and
\* document.get then raises AttributeError.
query_prerequisite_elns(S, sop_id, field_filters) ==
    LET fetch(eln_metadata) ==
            get_document(S, "submissions", sop_id, Basename(eln_metadata.filename))
        matches(form_data) ==
            \A field_id \in DOMAIN field_filters :
               /\ field_id \in DOMAIN form_data
               /\ form_data[field_id] = field_filters[field_id]
        pair(eln_metadata) ==
            [document |-> fetch(eln_metadata).document, metadata |-> eln_metadata]
        kept(eln_metadata) == matches(fetch(eln_metadata).document.form_data)
    IN {IF \E i \in 1..Len(elns) : fetch(elns[i]).err = "StorageError"
        THEN [err |-> "StorageError"]
        ELSE IF \E i \in 1..Len(elns) : fetch(elns[i]).err = "None"
        THEN [err |-> "AttributeError"]
        ELSE [err |-> "ok",
              elns |-> [i \in 1..Len(SelectSeq(elns, kept)) |->
                          pair(SelectSeq(elns, kept)[i])]] :
          elns \in list_documents(S, "submissions", sop_id, "ELNMetadata", {}, {}, {}, {})}

QueryPrerequisiteElns(sop_id, field_filters) ==
    /\ att.pc = "idle"
    /\ \E out \in query_prerequisite_elns(objs, sop_id, field_filters) :
          res' = [op |-> "query", sop_id |-> sop_id, out |-> out]
    /\ UNCHANGED <<reqs, gen, backend, document_type, config, objs, now, att>>

\* Saving, uploading .json files, attaching them and reading documents.
NextUploads ==
    \/ \E sop_id \in DocSops, user_id \in DocUsers, fv \in VarLists :
          SaveDocument("drafts", sop_id, user_id, fv, FormDataPlain, <<>>, "a")
    \/ \E sop_id \in DocSops, user_id \in DocUsers, fv \in VarLists :
          SaveDocument("submissions", sop_id, user_id, fv, FormDataFiles, <<>>, "a")
    \/ \E document \in JsonContents, filename \in JsonNames, user_id \in AttachUsers,
          field_id \in TempFields, sop_id \in DocSops :
          StoreTempJson(<<"a">>, document, filename, user_id, field_id, sop_id)
    \/ \E eln_uuid \in ElnUuids, user_id \in AttachUsers, field_id \in TempFields,
          sop_id \in DocSops :
          AttachBegin(eln_uuid, field_id, << <<"a">> >>, user_id, sop_id)
    \/ AttachLocate("ok")
    \/ AttachCopy("ok")
    \/ AttachDelete("ok")
    \/ AttachPatchLoad
    \/ AttachPatchStore
    \/ AttachReturn
    \/ \E doc_type \in {"drafts", "submissions"}, sop_id \in DocSops :
          ListDocuments(doc_type, sop_id, {}, {}, {}, {})
    \/ \E eln_uuid \in {<<"a">>, <<"z">>} : GetElnByUuid(eln_uuid)
    \/ \E sop_id \in DocSops, field_filters \in FieldFilters :
          QueryPrerequisiteElns(sop_id, field_filters)
    \/ Tick

SpecUploads == Init /\ [][NextUploads]_vars

(***************************************************************************)
(* Properties of what the reads return (SpecUploads).                      *)
(***************************************************************************)
\* The objects under an attachments directory.
IsAttachment(o) ==
    \/ StartsWith(o.key, TempPrefix(<<o.key[3]>>))
    \/ StartsWith(o.key, FinalPrefix(<<o.key[3]>>))

\* The stored documents that are not attachments: what save_document wrote
\* and the patch stage rewrote.
SavedDocuments == {o \in Docs(objs) : ~IsAttachment(o)}

\* C30: every document returned by list_documents, get_eln_by_uuid or
\* query_prerequisite_elns is a saved document: an uploaded attachment under
\* drafts/{sopId}/attachments/ or submissions/{sopId}/attachments/ is never
\* returned as a document, even when it is a .json file with the content
\* of a draft or final document.
C30_ReadsReturnOnlySavedDocuments ==
    /\ res.op = "list"
          => \A i \in 1..Len(res.items) :
                \E o \in SavedDocuments :
                   from_dict(MetadataClassOf(res.document_type), o.body) = res.items[i]
    /\ (res.op = "get_by_uuid" /\ res.out.err = "ok")
          => \E o \in SavedDocuments : o.body = res.out.document
    /\ (res.op = "query" /\ res.out.err = "ok")
          => \A i \in 1..Len(res.out.elns) :
                \E o \in SavedDocuments :
                   /\ o.body = res.out.elns[i].document
                   /\ from_dict("ELNMetadata", o.body) = res.out.elns[i].metadata


(***************************************************************************)
(* Concurrent final saves. The requests run in separate workers (Lambda    *)
(* instances, server processes) on one store, so the existence check of    *)
(* _validate_storage_constraints and the write of _perform_storage of one  *)
(* request are two steps that the steps of another request can separate.   *)
(***************************************************************************)
\* _store_document, the check: the error it raises before writing, if any.
store_check(S, key) ==
    IF document_type = "submissions" /\ HeadBucket(key) = NoBucket THEN "StorageError"
    ELSE IF ~validate_storage_constraints(S, key) THEN "ImmutableStorageError"
    ELSE "ok"

\* A write that looks at the store again and refuses an existing key.
store_write_if_absent(S, key, body) == store_document(S, key, body)

\* _store_document, the write: _perform_storage of the serialized document.
store_write(S, key, body) ==
    IF StorageBucket(key) = NoBucket THEN [objs |-> S, err |-> "StorageError"]
    ELSE [objs |-> perform_storage(S, key, body), err |-> "ok"]

\* save_document of request r up to and including the existence check.
ConcurrentSaveCheck(r, doc_type, sop_id, user_id, filename_variables, data, field_definitions, short_uuid) ==
    /\ att.pc = "idle"
    /\ reqs[r].pc = "idle"
    /\ Cardinality(objs) < MaxObjects
    /\ LET out == save_document(objs, doc_type, sop_id, user_id, filename_variables, data,
                                field_definitions, <<>>, <<>>, now, short_uuid)
           checked == store_check(objs, out.key)
       IN reqs' = [reqs EXCEPT ![r] =
                     [pc |-> IF checked = "ok" THEN "write" ELSE "returned",
                      op |-> "save", document_type |-> doc_type, sop_id |-> sop_id,
                      key |-> out.key, document |-> out.document, data |-> data,
                      return_id |-> out.return_id, err |-> checked,
                      existed |-> head_ok(objs, out.key)]]
    /\ UNCHANGED <<backend, document_type, config, objs, now, att, res, gen>>

\* save_document of request r, the write and the return of _store_document.
ConcurrentSaveWrite(r) ==
    /\ reqs[r].pc = "write"
    /\ LET out == store_write(objs, reqs[r].key, reqs[r].document)
       IN /\ objs' = out.objs
          /\ reqs' = [reqs EXCEPT ![r].pc = "returned", ![r].err = out.err]
    /\ UNCHANGED <<backend, document_type, config, now, att, res, gen>>

\* The response of request r has been sent.
ConcurrentSaveReturn(r) ==
    /\ reqs[r].pc = "returned"
    /\ reqs[r].op = "save"
    /\ reqs' = [reqs EXCEPT ![r] = [pc |-> "idle"]]
    /\ res' = [op |-> "save", document_type |-> reqs[r].document_type,
               sop_id |-> reqs[r].sop_id, key |-> reqs[r].key, data |-> reqs[r].data,
               err |-> reqs[r].err, return_id |-> reqs[r].return_id]
    /\ UNCHANGED <<backend, document_type, config, objs, now, att, gen>>

\* Final saves of two requests, step by step.
NextSaves ==
    \/ \E r \in Requests, sop_id \in DocSops, user_id \in DocUsers, fv \in VarLists,
          p \in FinalPayloads, short_uuid \in ShortIds :
          ConcurrentSaveCheck(r, "submissions", sop_id, user_id, fv, p.data,
                              p.field_definitions, short_uuid)
    \/ \E r \in Requests : ConcurrentSaveWrite(r)
    \/ \E r \in Requests : ConcurrentSaveReturn(r)
    \/ Tick

SpecSaves == Init /\ [][NextSaves]_vars

(***************************************************************************)
(* Properties of concurrent final saves (SpecSaves).                       *)
(***************************************************************************)
\* Request r performs its write.
SaveWriteStep(r) == reqs[r].pc = "write" /\ reqs'[r].pc = "returned"

\* C25: the existence check and the write of a final save are two steps
\* with no lock between them. A save that passed its check writes whatever
\* the store holds by then: the write replaces a document another save put
\* at the key in between, and raises no ImmutableStorageError.
C25_CheckAndWriteAreSeparate ==
    [][\A r \in Requests :
          SaveWriteStep(r)
          => /\ reqs'[r].err = "ok"
             /\ Has(objs', StorageBucket(reqs[r].key), reqs[r].key)
             /\ BodyAt(objs', StorageBucket(reqs[r].key), reqs[r].key) = reqs[r].document]_vars

\* Two final saves of one key have both passed the check of the
\* submissions store when the key was free, both have written and returned
\* without an error, and their documents differ: one of them is gone.
C25_Witness ==
    /\ document_type = "submissions"
    /\ \A r \in Requests :
          /\ reqs[r].pc = "returned"
          /\ reqs[r].err = "ok"
          /\ ~reqs[r].existed
    /\ reqs[1].key = reqs[2].key
    /\ reqs[1].document # reqs[2].document
    /\ BodyAt(objs, StorageBucket(reqs[1].key), reqs[1].key)
          \in {reqs[1].document, reqs[2].document}


(***************************************************************************)
(* Concurrent calls of attach_files_to_eln, one per request, each a step   *)
(* per backend call: list the temp file, copy it, delete the temp key,     *)
(* then read the parent, and write it back.                                *)
(***************************************************************************)
\* The exception of a step leaves the loop: the call raises StorageError.
attach_fail(a, stage, e) ==
    [a EXCEPT !.pc = "failed", !.failed = stage,
              !.fault = IF e # "ok" THEN stage ELSE "none"]

\* file_keys = await self._list_files_in_bucket(temp_key_prefix, ...), and
\* temp_key = file_keys[0]: the calls the step can lead to.
locate_step(S, a, e) ==
    LET file_id == a.file_ids[a.idx]
        keys == list_files_in_bucket(S, TempKeyPrefix(a.sop_id, a.user_id, a.field_id,
                                                       file_id))
    IN IF e # "ok" \/ DraftFilesBucket = NoBucket \/ keys = {}
       THEN {attach_fail(a, "locate", e)}
       ELSE {[a EXCEPT !.pc = "copy", !.temp_key = temp_key] : temp_key \in Firsts(keys)}

\* final_key of the move stage
FinalKeyOf(temp_key, sop_id) ==
    FinalPrefix(sop_id) \o process_temp_filename(LastSegment(temp_key))

\* A move that removes the temp key before the copy is made.
delete_then_copy_step(S, a, e) ==
    LET final_key == FinalKeyOf(a.temp_key, a.sop_id)
        src == CopySourceBucket(a.temp_key)
        dst == CopyDestBucket(final_key)
    IN IF src = NoBucket \/ dst = NoBucket \/ ~Has(S, src, a.temp_key)
       THEN [objs |-> S, att |-> attach_fail(a, "copy", e)]
       ELSE IF e # "ok"
       THEN [objs |-> Remove(S, src, a.temp_key), att |-> attach_fail(a, "copy", e)]
       ELSE [objs |-> Put(Remove(S, src, a.temp_key), dst, final_key,
                          BodyAt(S, src, a.temp_key)),
             att |-> [a EXCEPT !.pc = "delete", !.final_key = final_key]]

\* await self._copy_file(temp_key, final_key)
copy_step(S, a, e) ==
    LET final_key == FinalKeyOf(a.temp_key, a.sop_id)
        src == CopySourceBucket(a.temp_key)
        dst == CopyDestBucket(final_key)
    IN IF e # "ok" \/ src = NoBucket \/ dst = NoBucket \/ ~Has(S, src, a.temp_key)
       THEN [objs |-> S, att |-> attach_fail(a, "copy", e)]
       ELSE [objs |-> Put(S, dst, final_key, BodyAt(S, src, a.temp_key)),
             att |-> [a EXCEPT !.pc = "delete", !.final_key = final_key]]

\* await self._delete_document(temp_key), then the two appends.
delete_step(S, a, e) ==
    LET file_id == a.file_ids[a.idx]
        out == delete_document(S, a.temp_key)
        raised == \/ out.ret = "StorageError"
                  \/ (e # "ok" /\ ~is_not_found_error(e))
        info == [finalPath |-> a.final_key,
                 originalName |-> OriginalName(LastSegment(a.temp_key), a.user_id,
                                               a.field_id, file_id),
                 fileId |-> file_id]
        seen == IF e # "ok" THEN a.delete_errors \cup {a.idx} ELSE a.delete_errors
    IN IF raised
       THEN [objs |-> S,
             att |-> [a EXCEPT !.pc = "failed", !.failed = "delete",
                               !.fault = IF e # "ok" THEN "delete" ELSE "none",
                               !.delete_errors = seen]]
       ELSE [objs |-> IF e = "ok" THEN out.objs ELSE S,
             att |-> [a EXCEPT
                        !.pc = IF a.idx = Len(a.file_ids) THEN "patch_load" ELSE "locate",
                        !.idx = a.idx + 1,
                        !.final_urls = Append(a.final_urls, a.final_key),
                        !.file_info_list = Append(a.file_info_list, info),
                        !.delete_errors = seen]]

\* Patch stage, the reads: the calls the step can lead to.
patch_load_step(S, a) ==
    LET prefix == <<"submissions", "/">> \o a.sop_id \o <<"/">>
        matches == {k \in perform_listing(S, prefix) : Contains(k, a.eln_uuid)}
        unescaped_field_id == unescape_field_id(a.field_id)
        loaded(k) ==
            LET eln_filename == LastSegment(k)
                got == get_document(S, "submissions", a.sop_id,
                                    Replace(eln_filename, ".json", <<>>))
            IN IF got.err = "StorageError" THEN attach_fail(a, "patch", "ok")
               ELSE IF got.err = "None" THEN [a EXCEPT !.pc = "done"]
               ELSE IF unescaped_field_id \notin DOMAIN got.document.form_data
               THEN [a EXCEPT !.pc = "done"]
               ELSE [a EXCEPT !.pc = "patch_store",
                              !.eln_key = prefix \o eln_filename,
                              !.eln_doc = [got.document EXCEPT
                                  !.form_data[unescaped_field_id] =
                                      PatchField(@, a.file_info_list)]]
    IN IF ListingBucket(prefix) = NoBucket THEN {attach_fail(a, "patch", "ok")}
       ELSE IF matches = {} THEN {[a EXCEPT !.pc = "done"]}
       ELSE {loaded(k) : k \in Firsts(matches)}

\* A write that reads the parent again and changes the one field only.
merge_store_step(S, a) ==
    LET field == unescape_field_id(a.field_id)
        bucket == RetrievalBucket(a.eln_key)
        current == IF Has(S, bucket, a.eln_key) THEN BodyAt(S, bucket, a.eln_key)
                   ELSE a.eln_doc
        out == store_document(S, a.eln_key,
                   [current EXCEPT !.form_data[field] = a.eln_doc.form_data[field]])
    IN IF out.err # "ok" THEN [objs |-> S, att |-> attach_fail(a, "patch", "ok")]
       ELSE [objs |-> out.objs,
             att |-> [a EXCEPT !.pc = "done", !.writes = a.writes + 1]]

\* Patch stage, the write: await self._store_document(key, eln_doc, {})
patch_store_step(S, a) ==
    LET out == store_document(S, a.eln_key, a.eln_doc)
    IN IF out.err # "ok" THEN [objs |-> S, att |-> attach_fail(a, "patch", "ok")]
       ELSE [objs |-> out.objs,
             att |-> [a EXCEPT !.pc = "done", !.writes = a.writes + 1]]

\* Request r calls attach_files_to_eln.
ConcurrentAttachBegin(r, eln_uuid, field_id, file_ids, user_id, sop_id) ==
    /\ att.pc = "idle"
    /\ reqs[r].pc = "idle"
    /\ reqs' = [reqs EXCEPT ![r] =
                  AttachStart(eln_uuid, field_id, file_ids, user_id, sop_id, FALSE)]
    /\ UNCHANGED <<backend, document_type, config, objs, now, att, res, gen>>

ConcurrentAttachLocate(r, e) ==
    /\ reqs[r].pc = "locate"
    /\ \E a \in locate_step(objs, reqs[r], e) : reqs' = [reqs EXCEPT ![r] = a]
    /\ UNCHANGED <<backend, document_type, config, objs, now, att, res, gen>>

ConcurrentAttachCopy(r, e) ==
    /\ reqs[r].pc = "copy"
    /\ LET out == copy_step(objs, reqs[r], e)
       IN /\ objs' = out.objs
          /\ reqs' = [reqs EXCEPT ![r] = out.att]
    /\ UNCHANGED <<backend, document_type, config, now, att, res, gen>>

ConcurrentAttachDelete(r, e) ==
    /\ reqs[r].pc = "delete"
    /\ LET out == delete_step(objs, reqs[r], e)
       IN /\ objs' = out.objs
          /\ reqs' = [reqs EXCEPT ![r] = out.att]
    /\ UNCHANGED <<backend, document_type, config, now, att, res, gen>>

ConcurrentAttachPatchLoad(r) ==
    /\ reqs[r].pc = "patch_load"
    /\ \E a \in patch_load_step(objs, reqs[r]) : reqs' = [reqs EXCEPT ![r] = a]
    /\ UNCHANGED <<backend, document_type, config, objs, now, att, res, gen>>

ConcurrentAttachPatchStore(r) ==
    /\ reqs[r].pc = "patch_store"
    /\ LET out == patch_store_step(objs, reqs[r])
       IN /\ objs' = out.objs
          /\ reqs' = [reqs EXCEPT ![r] = out.att]
    /\ UNCHANGED <<backend, document_type, config, now, att, res, gen>>

\* attach_files_to_eln of request r returns final_urls or raises. A request
\* makes one call.
ConcurrentAttachReturn(r) ==
    /\ reqs[r].pc \in {"done", "failed"}
    /\ reqs' = [reqs EXCEPT ![r].pc = "returned"]
    /\ res' = [op |-> "attach", ok |-> reqs[r].pc = "done",
               final_urls |-> reqs[r].final_urls]
    /\ UNCHANGED <<backend, document_type, config, objs, now, att, gen>>

\* The file id lists of the concurrent requests.
ConcurrentFileIdLists == {<< <<"a">> >>, << <<"b">> >>}

\* A parent document and uploads for its file fields, then the attach calls
\* of two requests, step by step.
NextAttaches ==
    \/ /\ reqs = NoRequests
       /\ \E sop_id \in DocSops, user_id \in DocUsers, fv \in VarLists :
             SaveDocument("submissions", sop_id, user_id, fv, FormDataFiles, <<>>, "a")
    \/ /\ reqs = NoRequests
       /\ \E file_id \in FileIds, content \in {"c1"}, filename \in OriginalNames,
             user_id \in AttachUsers, field_id \in AttachFields, sop_id \in DocSops :
             StoreTempFile(file_id, content, filename, user_id, field_id, sop_id)
    \/ \E r \in Requests, eln_uuid \in ElnUuids, field_id \in AttachFields,
          file_ids \in ConcurrentFileIdLists, user_id \in AttachUsers, sop_id \in DocSops :
          ConcurrentAttachBegin(r, eln_uuid, field_id, file_ids, user_id, sop_id)
    \/ \E r \in Requests, e \in IOErrors : ConcurrentAttachLocate(r, e)
    \/ \E r \in Requests, e \in IOErrors : ConcurrentAttachCopy(r, e)
    \/ \E r \in Requests, e \in IOErrors : ConcurrentAttachDelete(r, e)
    \/ \E r \in Requests : ConcurrentAttachPatchLoad(r)
    \/ \E r \in Requests : ConcurrentAttachPatchStore(r)
    \/ \E r \in Requests : ConcurrentAttachReturn(r)

SpecAttaches == Init /\ [][NextAttaches]_vars


(***************************************************************************)
(* Properties of concurrent attach calls (SpecAttaches).                   *)
(***************************************************************************)
\* Request r performs the write of its patch stage.
RequestPatchStep(r) == reqs[r].pc = "patch_store" /\ reqs'[r].pc = "done"

\* The field request r patches, as the parent names it.
PatchedFieldOf(r) == unescape_field_id(reqs[r].field_id)

\* C24: attach calls on one parent are not mutually excluded. The write of
\* a patch stage stores the whole document the call read earlier with its
\* own field patched, whatever the parent holds by then, so a patch another
\* call stored in between is lost although both calls return successfully.
C24_PatchWritesBackWhatItRead ==
    [][\A r \in Requests :
          RequestPatchStep(r)
          => /\ Has(objs', StorageBucket(reqs[r].eln_key), reqs[r].eln_key)
             /\ BodyAt(objs', StorageBucket(reqs[r].eln_key), reqs[r].eln_key)
                   = reqs[r].eln_doc]_vars

\* Both calls have patched different fields of one parent and returned
\* their final urls, and the stored parent carries one patch only: the
\* field of the other call is as it was before the attach.
C24_Witness ==
    /\ \A r \in Requests :
          /\ reqs[r].pc = "returned"
          /\ reqs[r].failed = "none"
          /\ reqs[r].writes = 1
    /\ reqs[1].eln_key = reqs[2].eln_key
    /\ PatchedFieldOf(1) # PatchedFieldOf(2)
    /\ LET parent == BodyAt(objs, StorageBucket(reqs[1].eln_key), reqs[1].eln_key)
       IN \E r, q \in Requests :
             /\ r # q
             /\ parent.form_data[PatchedFieldOf(r)].files = reqs[r].file_info_list
             /\ parent.form_data[PatchedFieldOf(q)] = FileFieldValue

\* The temp keys of the files request r asked for, as they were in
\* temporary storage when its move stage began.
RequestedTempKeys(r) ==
    UNION {list_files_in_bucket(reqs[r].pre,
               TempKeyPrefix(reqs[r].sop_id, reqs[r].user_id, reqs[r].field_id,
                             reqs[r].file_ids[i])) : i \in 1..Len(reqs[r].file_ids)}

\* C28: no attachment is lost. During and after a move stage, after a
\* failure at any step and with the calls of two requests interleaved,
\* each requested file that was in temporary storage when the move began
\* exists at its temp key or at its final key.
C28_NoAttachmentIsLost ==
    \A r \in Requests :
       reqs[r].pc # "idle"
       => \A temp_key \in RequestedTempKeys(r) :
             \/ Has(objs, CopySourceBucket(temp_key), temp_key)
             \/ LET final_key == FinalKeyOf(temp_key, reqs[r].sop_id)
                IN Has(objs, CopyDestBucket(final_key), final_key)

\* Two requests have moved a file each, one of them the file the other
\* asked for, a step of the other has failed, and the temp key is gone.
C28_Witness ==
    \E r, q \in Requests :
       /\ r # q
       /\ reqs[r].pc = "returned" /\ reqs[r].failed = "none"
       /\ reqs[q].pc = "failed" /\ reqs[q].failed = "copy"
       /\ RequestedTempKeys(r) # {}
       /\ RequestedTempKeys(q) = RequestedTempKeys(r)
       /\ \A temp_key \in RequestedTempKeys(r) :
             ~Has(objs, CopySourceBucket(temp_key), temp_key)

====
